---- MODULE Spec2Model ----
(***************************************************************************)
(* Versioned storage protocol of shibsp-redis (src/src/redis-connection.cpp *)
(* and src/src/redis-store.cpp) against a Redis server.                     *)
(*                                                                          *)
(* Each RedisConnection is one process: its mutex serialises the calls made *)
(* on it, so a connection runs one storage operation at a time.  The server *)
(* executes one command (or one MULTI/EXEC transaction) atomically, so an   *)
(* action is the code of an operation up to and including its next server   *)
(* round trip that reads or writes the keyspace.  Expiration times are      *)
(* absolute times in the future of every modelled behaviour: the server     *)
(* never removes a key by itself.                                           *)
(***************************************************************************)
EXTENDS Integers, Sequences, FiniteSets, TLC

VARIABLES store,     \* the server's keyspace: Redis key -> [present, val, exp]
          watched,   \* per connection: the keys it WATCHes
          dirty,     \* per connection: a watched key was touched (CLIENT_DIRTY_CAS)
          pc,        \* per connection: position inside the running operation
          call,      \* per connection: the running operation, its arguments and locals
          res,       \* per connection: what the finished operation returned or raised
          hiAll,     \* history, per recorded id: highest version an update ever returned
          hiSince,   \* history, per recorded id: the same since the version key was last deleted
          owner,            \* cluster: the node that serves the low half of the hash slots
          slotsReply,       \* cluster, per node: how it answers a connect and CLUSTER SLOTS
          opReply,          \* cluster: how a node answers the command of a storage operation
          m_cluster_map,    \* router: the slot map, a set of rows [range, node], one per range
          m_connection_map, \* router: the keys (addresses of map entries) with a cached connection
          rpc,              \* router: position of the caller inside wrappedCall
          rcall,            \* router: the running call, its recurse argument and its history
          rres,             \* router: what the finished call returned or raised
          arg,              \* pure functions: the arguments drawn for one application
          out,              \* pure functions: what the function computed from arg
          m_shared_mutex,   \* threads: the readers and the writer of the router's RWLock
          m_mutex,          \* threads: the holder of the mutex of each cached connection
          tpc,              \* threads: where each thread is in its router call
          tcall             \* threads: the router call of each thread

\* the storage protocol, and the cluster with its router
svars == <<store, watched, dirty, pc, call, res, hiAll, hiSince>>
cvars == <<owner, slotsReply, opReply, m_cluster_map, m_connection_map, rpc, rcall, rres>>
pvars == <<arg, out>>
tvars == <<m_shared_mutex, m_mutex, tpc, tcall>>
vars == <<store, watched, dirty, pc, call, res, hiAll, hiSince,
          owner, slotsReply, opReply, m_cluster_map, m_connection_map, rpc, rcall, rres,
          arg, out, m_shared_mutex, m_mutex, tpc, tcall>>

(***************************************************************************)
(* Bounds of the model.                                                     *)
(***************************************************************************)
MaxVersion == 3

(***************************************************************************)
(* Program constants.                                                       *)
(***************************************************************************)
optimisticConcurrencyRetryCount == 3

Conns == {"c1", "c2"}
Values == {"hello", "new"}
Exps == {1700000000, 1800000000}
prefix == "p:"
Ids == {[context |-> "s", key |-> "k"]}
Contexts == {i.context : i \in Ids}

\* EXPIRETIME's replies for a key without expiration and for a missing key
NoTtl == -1
NoKey == -2

(***************************************************************************)
(* Key rendering: SPREDIS_SID_FMT "{%s:%s%s}" over context, prefix, key.    *)
(***************************************************************************)
DataKey(id) == "{" \o id.context \o ":" \o prefix \o id.key \o "}"
VersionOf(fullKey) == "version.of:" \o fullKey
VersionKey(id) == VersionOf(DataKey(id))
KeysOf(id) == {DataKey(id), VersionKey(id)}
DataKeys == {DataKey(i) : i \in Ids}
RedisKeys == DataKeys \cup {VersionKey(i) : i \in Ids}

\* a key the server does not hold
Missing == [present |-> FALSE, val |-> "", exp |-> NoKey]
Has(st, k) == k \in DOMAIN st /\ st[k].present
Exists(st, id) == Has(st, DataKey(id)) /\ Has(st, VersionKey(id))

(***************************************************************************)
(* Decimal strings: the version key holds the version as a decimal string.  *)
(* The numbers the model can store are 0 .. MaxVersion + 1.                 *)
(***************************************************************************)
IsDecimal(s) == \E n \in 0..(MaxVersion + 1) : ToString(n) = s
Decimal(s) == CHOOSE n \in 0..(MaxVersion + 1) : ToString(n) = s

(***************************************************************************)
(* Replies, by hiredis reply type.                                          *)
(***************************************************************************)
Nil == [type |-> "nil", str |-> "", integer |-> 0]
Status(s) == [type |-> "status", str |-> s, integer |-> 0]
String(s) == [type |-> "string", str |-> s, integer |-> 0]
Integer(n) == [type |-> "integer", str |-> "", integer |-> n]

(***************************************************************************)
(* The server's commands.  A command maps a transaction state               *)
(* [st, touched, replies] to the next one: st is the keyspace, touched the  *)
(* keys it signalled as modified, replies the replies so far.               *)
(***************************************************************************)
Begin(st) == [st |-> st, touched |-> {}, replies |-> <<>>]

Write(t, k, entry, r) ==
    [st |-> IF k \in DOMAIN t.st THEN [t.st EXCEPT ![k] = entry] ELSE t.st,
     touched |-> t.touched \cup {k},
     replies |-> Append(t.replies, r)]

NoEffect(t, r) == [t EXCEPT !.replies = Append(@, r)]

\* SET k val NX EXAT exp, were the server to drop the expiration
SetNxExatForever(t, k, val, exp) ==
    IF ~Has(t.st, k)
    THEN Write(t, k, [present |-> TRUE, val |-> val, exp |-> NoTtl], Status("OK"))
    ELSE NoEffect(t, Nil)

\* SET k val NX EXAT exp
SetNxExat(t, k, val, exp) ==
    IF ~Has(t.st, k)
    THEN Write(t, k, [present |-> TRUE, val |-> val, exp |-> exp], Status("OK"))
    ELSE NoEffect(t, Nil)

\* SET k val XX KEEPTTL, were it to answer OK and keep the old value
SetXxKeepValue(t, k, val) ==
    IF Has(t.st, k) THEN Write(t, k, t.st[k], Status("OK"))
                    ELSE NoEffect(t, Nil)

\* SET k val XX KEEPTTL
SetXxKeepTtl(t, k, val) ==
    IF Has(t.st, k) THEN Write(t, k, [t.st[k] EXCEPT !.val = val], Status("OK"))
                    ELSE NoEffect(t, Nil)

\* INCR k, were it to answer the old number of an existing key
IncrStuck(t, k) ==
    IF ~Has(t.st, k)
    THEN Write(t, k, [present |-> TRUE, val |-> ToString(1), exp |-> NoTtl], Integer(1))
    ELSE Write(t, k, t.st[k], Integer(Decimal(t.st[k].val)))

\* INCR k: the value is a decimal string; a missing key counts from 0 and gets
\* no expiration
Incr(t, k) ==
    IF ~Has(t.st, k)
    THEN Write(t, k, [present |-> TRUE, val |-> ToString(1), exp |-> NoTtl], Integer(1))
    ELSE LET n == Decimal(t.st[k].val) + 1
         IN  Write(t, k, [t.st[k] EXCEPT !.val = ToString(n)], Integer(n))

\* EXPIREAT k exp, were it to answer 1 and leave the expiration
ExpireAtIgnored(t, k, exp) ==
    IF Has(t.st, k) THEN Write(t, k, t.st[k], Integer(1))
                    ELSE NoEffect(t, Integer(0))

\* EXPIREAT k exp
ExpireAt(t, k, exp) ==
    IF Has(t.st, k) THEN Write(t, k, [t.st[k] EXCEPT !.exp = exp], Integer(1))
                    ELSE NoEffect(t, Integer(0))

\* GET k
Get(t, k) == NoEffect(t, IF Has(t.st, k) THEN String(t.st[k].val) ELSE Nil)

\* EXPIRETIME k
ExpireTime(t, k) == NoEffect(t, Integer(IF Has(t.st, k) THEN t.st[k].exp ELSE NoKey))

\* UNLINK over a set of keys: the number of keys that existed
Unlink(t, ks) ==
    LET gone == {k \in ks : Has(t.st, k)}
    IN  [st |-> [k \in DOMAIN t.st |-> IF k \in gone THEN Missing ELSE t.st[k]],
         touched |-> t.touched \cup gone,
         replies |-> Append(t.replies, Integer(Cardinality(gone)))]

(***************************************************************************)
(* Transactions the operations pipeline between MULTI and EXEC.             *)
(***************************************************************************)
\* set: SET data NX EXAT exp, SET version 1 NX EXAT exp
SetTx(st, id, value, expiration) ==
    SetNxExat(SetNxExat(Begin(st), DataKey(id), value, expiration),
              VersionKey(id), "1", expiration)

\* forceGet: GET version, GET data?, EXPIRETIME data?
ForceGetTx(st, id, wantV, wantE) ==
    LET t0 == Get(Begin(st), VersionKey(id))
        t1 == IF wantV THEN Get(t0, DataKey(id)) ELSE t0
    IN  IF wantE THEN ExpireTime(t1, DataKey(id)) ELSE t1

\* getVersioned: GET data?, EXPIRETIME data?
GetTx(st, id, wantV, wantE) ==
    LET t1 == IF wantV THEN Get(Begin(st), DataKey(id)) ELSE Begin(st)
    IN  IF wantE THEN ExpireTime(t1, DataKey(id)) ELSE t1

\* updateVersioned, forceUpdate: SET data XX KEEPTTL, INCR version,
\* and with a non-zero expiration EXPIREAT data, EXPIREAT version
UpdateTx(st, id, value, expiration) ==
    LET t2 == Incr(SetXxKeepTtl(Begin(st), DataKey(id), value), VersionKey(id))
    IN  IF expiration # 0
        THEN ExpireAt(ExpireAt(t2, DataKey(id), expiration), VersionKey(id), expiration)
        ELSE t2

(***************************************************************************)
(* Pieces of the operations' code.                                          *)
(***************************************************************************)
\* parseNumber: stoi of the reply, 0 when it is no number
parseNumber(str) == IF IsDecimal(str) THEN Decimal(str) ELSE 0

\* updateVersioned, were it never to see a mismatch
NeverMismatch(currentVersion, ifVersion) == FALSE

\* updateVersioned: "if version mismatch, report failure"
VersionMismatch(currentVersion, ifVersion) == currentVersion # ifVersion

\* updateVersioned, were it to expect the INCR result to be the version read
SevereFailureOffByOne(incr, currentVersion) == incr # currentVersion

\* updateVersioned: "severe concurrency failure", the INCR result is not
\* the version read under WATCH plus one
SevereFailure(incr, currentVersion) == incr - 1 # currentVersion

\* getVersioned, were it to ignore minVersion
KeepValueAlways(wantV, currentVersion, minVersion) == wantV

\* getVersioned: "if version mismatch, set out_value to null"
KeepValue(wantV, currentVersion, minVersion) == wantV /\ ~(currentVersion < minVersion)

\* the for loop, were it to go round once more
TryAgainOnceMore(tryCount) == tryCount < optimisticConcurrencyRetryCount

\* the for loop of getVersioned and updateVersioned goes round again
TryAgain(tryCount) == tryCount + 1 < optimisticConcurrencyRetryCount

\* forceGet: reply->element[0]->type == NIL || reply->element[1]->type == NIL.
\* With one element only (neither output asked for) element[1] is read past
\* the end of the array: any outcome.
KeyNotFound(replies) ==
    IF replies[1].type = "nil" THEN {"notfound"}
    ELSE IF Len(replies) >= 2
         THEN {IF replies[2].type = "nil" THEN "notfound" ELSE "found"}
         ELSE {"notfound", "found", "crash"}

\* scanContextTypeless: SCAN MATCH context:*
ScanMatch(context, k) ==
    Len(k) >= Len(context) + 1 /\ SubSeq(k, 1, Len(context) + 1) = context \o ":"

\* the callbacks of updateContext and deleteContext on one scanned key
SetExpirationTo(t, fullKey, expiration) ==
    ExpireAt(ExpireAt(t, fullKey, expiration), VersionOf(fullKey), expiration)
Delete(t, fullKey) == Unlink(t, {fullKey, VersionOf(fullKey)})

RECURSIVE ScanEach(_, _, _, _)
ScanEach(t, keys, cb, expiration) ==
    IF keys = {} THEN t
    ELSE LET k == CHOOSE x \in keys : TRUE
             u == IF cb = "deleteContext" THEN Delete(t, k) ELSE SetExpirationTo(t, k, expiration)
         IN  ScanEach([u EXCEPT !.replies = <<>>], keys \ {k}, cb, expiration)

(***************************************************************************)
(* Connections.  A connection is "idle" before its first call and "done"    *)
(* after a call; in "done", call and res still hold the finished call and   *)
(* its result.  The fields after, fresh, preVer, preExp, wrote, intf and    *)
(* conc of a call are history: they record what the properties speak about  *)
(* and no operation reads them.                                             *)
(***************************************************************************)
DefaultId == CHOOSE i \in Ids : TRUE

NoAfter == [op |-> "none", value |-> "", exp |-> 0, n |-> 0, fresh |-> FALSE, preExp |-> 0]

NoCall == [op |-> "none", id |-> DefaultId, ctx |-> "", value |-> "", exp |-> 0,
           ver |-> 0, wantV |-> FALSE, wantE |-> FALSE, out_value |-> FALSE,
           tryCount |-> 0, cur |-> 0,
           after |-> NoAfter, fresh |-> FALSE, preVer |-> 0, preExp |-> 0,
           wrote |-> FALSE, intf |-> FALSE, conc |-> FALSE]

NoRes == [kind |-> "none", val |-> 0, bool |-> FALSE, what |-> "",
          gotV |-> FALSE, outV |-> "", gotE |-> FALSE, outE |-> 0]
Ret(v) == [NoRes EXCEPT !.kind = "ret", !.val = v]
RetBool(b) == [NoRes EXCEPT !.kind = "ret", !.bool = b]
Throw(what) == [NoRes EXCEPT !.kind = "throw", !.what = what]
Crash == [NoRes EXCEPT !.kind = "crash"]
RetOut(v, wantV, outV, wantE, outE) ==
    [NoRes EXCEPT !.kind = "ret", !.val = v,
                  !.gotV = wantV, !.outV = IF wantV THEN outV ELSE "",
                  !.gotE = wantE, !.outE = IF wantE THEN outE ELSE 0]

Free(c) == pc[c] \in {"idle", "done"}
Writers == {"set", "forceUpdate", "updateVersioned", "remove"}

\* history: the call c finished just before, when it wrote id, returned, and no
\* other connection has touched id's keys since it began
After(c, id) ==
    IF /\ pc[c] = "done" /\ call[c].op \in Writers /\ call[c].id = id
       /\ ~call[c].intf /\ res[c].kind = "ret"
    THEN [op |-> call[c].op, value |-> call[c].value, exp |-> call[c].exp,
          n |-> IF res[c].bool THEN 1 ELSE res[c].val,
          fresh |-> call[c].fresh, preExp |-> call[c].preExp]
    ELSE NoAfter

\* history: the version and the expiration id is stored with (0: not stored)
StoredVersion(st, id) ==
    IF Exists(st, id) THEN Decimal(st[VersionKey(id)].val) ELSE 0
StoredExp(st, id) == IF Exists(st, id) THEN st[DataKey(id)].exp ELSE 0

StartCall(c, op, id, value, expiration, ver, wantV, wantE) ==
    [NoCall EXCEPT !.op = op, !.id = id, !.value = value, !.exp = expiration,
                   !.ver = ver, !.wantV = wantV, !.wantE = wantE, !.out_value = wantV,
                   !.after = IF op = "forceGet" THEN After(c, id) ELSE NoAfter,
                   !.fresh = op = "set" /\ ~Has(store, DataKey(id))
                                        /\ ~Has(store, VersionKey(id)),
                   !.preVer = IF op = "updateVersioned" THEN StoredVersion(store, id) ELSE 0,
                   !.preExp = IF op \in {"updateVersioned", "forceUpdate"}
                              THEN StoredExp(store, id) ELSE 0]

\* the calls of the other connections whose keys this step touched
Others(c, touched) ==
    [d \in Conns |->
        IF d # c /\ pc[d] # "idle" /\ KeysOf(call[d].id) \cap touched # {}
        THEN [call[d] EXCEPT !.intf = TRUE]
        ELSE call[d]]

\* One server round trip of connection c: t is what the server did (Begin(store)
\* when it changed nothing), unwatch says that the round trip ended in EXEC or
\* UNWATCH, which drop c's watches.  updated is the version a successful update
\* returned, else 0.
ServerStep(c, t, unwatch, nextPc, nextCall, result, updated) ==
    /\ store' = t.st
    /\ watched' = IF unwatch THEN [watched EXCEPT ![c] = {}] ELSE watched
    /\ dirty' = [d \in Conns |->
                    IF unwatch /\ d = c THEN FALSE
                    ELSE dirty[d] \/ (watched[d] \cap t.touched # {})]
    /\ pc' = [pc EXCEPT ![c] = nextPc]
    /\ call' = [Others(c, t.touched) EXCEPT
                    ![c] = [nextCall EXCEPT
                              !.wrote = @ \/ (t.st # store),
                              \* the locals end with the call
                              !.tryCount = IF nextPc = "done" THEN 0 ELSE @,
                              !.cur = IF nextPc = "done" THEN 0 ELSE @]]
    /\ res' = [res EXCEPT ![c] = result]
    /\ hiAll' = [i \in DOMAIN hiAll |->
                    IF i = nextCall.id /\ updated > hiAll[i] THEN updated ELSE hiAll[i]]
    /\ hiSince' = [i \in DOMAIN hiSince |->
                    IF Has(store, VersionKey(i)) /\ ~Has(t.st, VersionKey(i)) THEN 0
                    ELSE IF i = nextCall.id /\ updated > hiSince[i] THEN updated
                    ELSE hiSince[i]]
    /\ UNCHANGED <<cvars, pvars, tvars>>

\* the call goes on without the WATCH having reached the server
WatchNothing(c, k, nextCall, calls) ==
    /\ watched' = watched
    /\ pc' = [pc EXCEPT ![c] = IF nextCall.op = "updateVersioned" THEN "uv_get" ELSE "gv_get"]
    /\ call' = [calls EXCEPT ![c] = nextCall]
    /\ res' = [res EXCEPT ![c] = NoRes]
    /\ UNCHANGED <<store, dirty, hiAll, hiSince>>
    /\ UNCHANGED <<cvars, pvars, tvars>>

\* WATCH k
Watch(c, k, nextCall, calls) ==
    /\ watched' = [watched EXCEPT ![c] = @ \cup {k}]
    /\ pc' = [pc EXCEPT ![c] = IF nextCall.op = "updateVersioned" THEN "uv_get" ELSE "gv_get"]
    /\ call' = [calls EXCEPT ![c] = nextCall]
    /\ res' = [res EXCEPT ![c] = NoRes]
    /\ UNCHANGED <<store, dirty, hiAll, hiSince>>
    /\ UNCHANGED <<cvars, pvars, tvars>>

\* the model stores versions up to MaxVersion
CanIncr(id) ==
    ~Has(store, VersionKey(id)) \/ parseNumber(store[VersionKey(id)].val) < MaxVersion

(***************************************************************************)
(* RedisConnection::set                                                     *)
(***************************************************************************)
set(c, id, value, expiration) ==
    /\ Free(c)
    /\ LET t  == SetTx(store, id, value, expiration)
           cl == StartCall(c, "set", id, value, expiration, 0, FALSE, FALSE)
       IN  IF dirty[c]
           THEN \* EXEC answers nil where an array is expected
                ServerStep(c, Begin(store), TRUE, "done", cl, Throw("IOException"), 0)
           ELSE IF t.replies[1].type = "nil"
           THEN ServerStep(c, t, TRUE, "done", cl, RetBool(FALSE), 0)
           ELSE IF t.replies[2].type = "nil"
           THEN ServerStep(c, t, TRUE, "set_unlink", cl, NoRes, 0)
           ELSE ServerStep(c, t, TRUE, "done", cl, RetBool(TRUE), 0)

\* "clean up value and version": UNLINK data version
setUnlink(c) ==
    /\ pc[c] = "set_unlink"
    /\ ServerStep(c, Unlink(Begin(store), KeysOf(call[c].id)), FALSE, "done",
                  call[c], RetBool(FALSE), 0)

(***************************************************************************)
(* RedisConnection::forceGet                                                *)
(***************************************************************************)
forceGet(c, id, wantV, wantE) ==
    /\ Free(c)
    /\ LET t  == ForceGetTx(store, id, wantV, wantE)
           cl == StartCall(c, "forceGet", id, "", 0, 0, wantV, wantE)
           expiration_index == IF wantV THEN 3 ELSE 2
       IN  IF dirty[c]
           THEN ServerStep(c, Begin(store), TRUE, "done", cl, Throw("IOException"), 0)
           ELSE \E found \in KeyNotFound(t.replies) :
                  ServerStep(c, t, TRUE, "done", cl,
                     CASE found = "notfound" -> Ret(0)
                       [] found = "crash" -> Crash
                       [] OTHER -> RetOut(parseNumber(t.replies[1].str),
                                          wantV, IF wantV THEN t.replies[2].str ELSE "",
                                          wantE, IF wantE THEN t.replies[expiration_index].integer
                                                           ELSE 0),
                     0)

(***************************************************************************)
(* RedisConnection::forceUpdate                                             *)
(***************************************************************************)
forceUpdate(c, id, value, expiration) ==
    /\ Free(c)
    /\ CanIncr(id)
    /\ LET t  == UpdateTx(store, id, value, expiration)
           cl == StartCall(c, "forceUpdate", id, value, expiration, 0, FALSE, FALSE)
       IN  IF dirty[c]
           THEN ServerStep(c, Begin(store), TRUE, "done", cl, Throw("IOException"), 0)
           ELSE IF t.replies[1].type # "status"
           THEN \* SET XX answered nil: raised after the transaction ran
                ServerStep(c, t, TRUE, "done", cl, Throw("IOException"), 0)
           ELSE ServerStep(c, t, TRUE, "done", cl, Ret(t.replies[2].integer),
                           t.replies[2].integer)

(***************************************************************************)
(* RedisConnection::remove                                                  *)
(***************************************************************************)
remove(c, id) ==
    /\ Free(c)
    /\ LET t == Unlink(Begin(store), KeysOf(id))
       IN  ServerStep(c, t, FALSE, "done",
                      StartCall(c, "remove", id, "", 0, 0, FALSE, FALSE),
                      RetBool(t.replies[1].integer # 0), 0)

(***************************************************************************)
(* RedisConnection::updateVersioned                                         *)
(***************************************************************************)
\* history: d is inside an updateVersioned of the same id and ifVersion that
\* began, as this one does, while the stored version was ifVersion
Concurrent(c, d, id, ifVersion) ==
    /\ d # c /\ pc[d] \in {"uv_get", "uv_exec", "uv_watch"}
    /\ call[d].id = id /\ call[d].ver = ifVersion /\ call[d].preVer = ifVersion
    /\ StoredVersion(store, id) = ifVersion

\* the call and the WATCH of the first round
updateVersioned(c, id, value, expiration, ifVersion) ==
    /\ Free(c)
    /\ LET cl == StartCall(c, "updateVersioned", id, value, expiration, ifVersion, FALSE, FALSE)
       IN  Watch(c, VersionKey(id),
                 [cl EXCEPT !.conc = \E d \in Conns : Concurrent(c, d, id, ifVersion)],
                 [d \in Conns |-> IF Concurrent(c, d, id, ifVersion)
                                  THEN [call[d] EXCEPT !.conc = TRUE] ELSE call[d]])

\* the WATCH of a later round
uvWatch(c) ==
    /\ pc[c] = "uv_watch"
    /\ Watch(c, VersionKey(call[c].id), call[c], call)

\* getOnlyVersion and the version check
uvGetOnlyVersion(c) ==
    /\ pc[c] = "uv_get"
    /\ LET r == Get(Begin(store), VersionKey(call[c].id)).replies[1]
           currentVersion == parseNumber(r.str)
       IN  IF r.type # "string"
           THEN ServerStep(c, Begin(store), FALSE, "done", call[c], Throw("IOException"), 0)
           ELSE IF VersionMismatch(currentVersion, call[c].ver)
           THEN ServerStep(c, Begin(store), FALSE, "done", call[c], Ret(-1), 0)
           ELSE ServerStep(c, Begin(store), FALSE, "uv_exec",
                           [call[c] EXCEPT !.cur = currentVersion], NoRes, 0)

\* MULTI ... EXEC and what follows it
uvExec(c) ==
    /\ pc[c] = "uv_exec"
    /\ CanIncr(call[c].id)
    /\ LET cl    == call[c]
           t     == UpdateTx(store, cl.id, cl.value, cl.exp)
           again == [cl EXCEPT !.tryCount = @ + 1]
           Retry(u) == IF TryAgain(cl.tryCount)
                       THEN ServerStep(c, u, TRUE, "uv_watch", again, NoRes, 0)
                       ELSE ServerStep(c, u, TRUE, "done", again, Ret(0), 0)
       IN  IF dirty[c]
           THEN Retry(Begin(store))
           ELSE IF t.replies[1].type # "status"
           THEN ServerStep(c, t, TRUE, "done", cl, Throw("IOException"), 0)
           ELSE IF SevereFailure(t.replies[2].integer, cl.cur)
           THEN Retry(t)
           ELSE ServerStep(c, t, TRUE, "done", cl, Ret(t.replies[2].integer),
                           t.replies[2].integer)

(***************************************************************************)
(* RedisConnection::getVersioned                                            *)
(***************************************************************************)
\* the call; with no output asked for a bare version read, else the WATCH of
\* the first round
getVersioned(c, id, wantV, wantE, minVersion) ==
    /\ Free(c)
    /\ LET cl == StartCall(c, "getVersioned", id, "", 0, minVersion, wantV, wantE)
           r  == Get(Begin(store), VersionKey(id)).replies[1]
       IN  IF ~wantV /\ ~wantE
           THEN IF r.type # "string"
                THEN ServerStep(c, Begin(store), FALSE, "done", cl, Throw("IOException"), 0)
                ELSE ServerStep(c, Begin(store), FALSE, "done", cl, Ret(parseNumber(r.str)), 0)
           ELSE Watch(c, VersionKey(id), cl, call)

gvWatch(c) ==
    /\ pc[c] = "gv_watch"
    /\ Watch(c, VersionKey(call[c].id), call[c], call)

\* getOnlyVersion, the version check, and UNWATCH when nothing is left to read
gvGetOnlyVersion(c) ==
    /\ pc[c] = "gv_get"
    /\ LET cl == call[c]
           r  == Get(Begin(store), VersionKey(cl.id)).replies[1]
           currentVersion == parseNumber(r.str)
           out_value == KeepValue(cl.out_value, currentVersion, cl.ver)
       IN  IF r.type # "string"
           THEN ServerStep(c, Begin(store), FALSE, "done", cl, Throw("IOException"), 0)
           ELSE IF ~out_value /\ ~cl.wantE
           THEN ServerStep(c, Begin(store), TRUE, "done", [cl EXCEPT !.out_value = out_value],
                           Ret(currentVersion), 0)
           ELSE ServerStep(c, Begin(store), FALSE, "gv_exec",
                           [cl EXCEPT !.out_value = out_value, !.cur = currentVersion],
                           NoRes, 0)

gvExec(c) ==
    /\ pc[c] = "gv_exec"
    /\ LET cl    == call[c]
           t     == GetTx(store, cl.id, cl.out_value, cl.wantE)
           again == [cl EXCEPT !.tryCount = @ + 1]
           expiration_index == IF cl.out_value THEN 2 ELSE 1
       IN  IF dirty[c]
           THEN IF TryAgain(cl.tryCount)
                THEN ServerStep(c, Begin(store), TRUE, "gv_watch", again, NoRes, 0)
                ELSE ServerStep(c, Begin(store), TRUE, "done", again, Ret(0), 0)
           ELSE IF cl.out_value /\ t.replies[1].type # "string"
           THEN ServerStep(c, t, TRUE, "done", cl, Throw("IOException"), 0)
           ELSE ServerStep(c, t, TRUE, "done", cl,
                           RetOut(cl.cur,
                                  cl.out_value, IF cl.out_value THEN t.replies[1].str ELSE "",
                                  cl.wantE, IF cl.wantE THEN t.replies[expiration_index].integer
                                                        ELSE 0),
                           0)

(***************************************************************************)
(* RedisStorageService::updateContext and deleteContext over                *)
(* RedisConnection::scanContextTypeless                                     *)
(***************************************************************************)
scanContext(c, context, cb, expiration) ==
    /\ Free(c)
    /\ LET hits == {k \in RedisKeys : Has(store, k) /\ ScanMatch(context, k)}
           t    == ScanEach(Begin(store), hits, cb, expiration)
       IN  ServerStep(c, t, FALSE, "done",
                      [NoCall EXCEPT !.op = cb, !.ctx = context, !.exp = expiration],
                      Ret(Cardinality(hits)), 0)

updateContext(c, context, expiration) == scanContext(c, context, "updateContext", expiration)
deleteContext(c, context) == scanContext(c, context, "deleteContext", 0)

(***************************************************************************)
(* The cluster and its router (src/src/redis-cluster.cpp, redis-cluster.h). *)
(*                                                                          *)
(* The cluster is the environment of the router: the node that owns the low *)
(* half of the hash slots, how each node answers a connect followed by      *)
(* CLUSTER SLOTS, and how a reachable node answers the command of a storage *)
(* operation.  One caller uses one RedisCluster object; an action is the    *)
(* code up to and including its next exchange with the nodes: one           *)
(* invocation of the operation, or one rebuild of the slot map.  The fields *)
(* attempts, waits, rebuilds, last and reconnects of a call are history:    *)
(* they record what the properties speak about.  A finished call and its    *)
(* result stay until the next call starts or the cluster changes.           *)
(***************************************************************************)
Nodes == {"A", "B"}

\* RedisConfig::initialNodes, in configured order
initialNodes == <<"A", "B">>

\* RedisConfig::maxRetries (retryAmount)
maxRetries == 1

connectionRetryCount == 3

\* the hash slots of the ids the caller uses
Slots == {7000}

RouterOps == {"set", "getVersioned", "forceGet", "updateVersioned", "forceUpdate", "remove"}

SlotsReplies == {"rows", "partial", "refused", "null"}
OpReplies == {"serve", "null", "clusterdown", "wrongtype", "badtype", "badexec"}

Range(from, to) == [from |-> from, to |-> to]
Low == Range(0, 8191)
High == Range(8192, 16383)
\* a range of a node whose view of the slots differs (a resharding in progress)
Part == Range(0, 5000)

\* a row of CLUSTER SLOTS with its number of elements, and an entry of the slot map
Row(range, node) == [range |-> range, node |-> node, elements |-> 3]
\* a row that lacks its node list
ShortRow == [range |-> Part, node |-> "", elements |-> 2]
\* no entry: the null pointer
NULL == [range |-> Range(0, 0), node |-> "", elements |-> 0]

OwnerOf(slot) == IF slot <= Low.to THEN owner ELSE "B"

\* the rows every healthy node reports
Rows == <<Row(Low, owner), Row(High, "B")>>

\* the reply of a reachable node n to CLUSTER SLOTS
ClusterSlots(n) ==
    CASE slotsReply[n] = "rows" -> [type |-> "array", element |-> Rows]
      [] slotsReply[n] = "partial" ->
            [type |-> "array", element |-> <<Row(Part, "A"), ShortRow>>]
      [] OTHER -> [type |-> "null", element |-> <<>>]

Moved(n) == IF n = "A" THEN "MOVED 7000 A:6379" ELSE "MOVED 7000 B:6379"

\* the reply of node n to the command of an operation on a key of slot, sent
\* over an established connection (a node that refuses connections answers
\* nothing: the reply is null)
Command(n, slot) ==
    CASE slotsReply[n] = "refused" \/ opReply = "null" -> [type |-> "null", str |-> ""]
      [] opReply = "serve" ->
            IF n = OwnerOf(slot) THEN [type |-> "ok", str |-> ""]
            ELSE [type |-> "error", str |-> Moved(OwnerOf(slot))]
      [] opReply = "clusterdown" ->
            [type |-> "error", str |-> "CLUSTERDOWN The cluster is down"]
      [] opReply = "wrongtype" ->
            [type |-> "error",
             str |-> "WRONGTYPE Operation against a key holding the wrong kind of value"]
      [] OTHER -> [type |-> opReply, str |-> ""]

(***************************************************************************)
(* The error classifier of RedisConnection.                                 *)
(***************************************************************************)
RECURSIVE handleCriticalError(_, _), recreateContext(_, _)
\* the number of redisReconnect calls made before ConnectionLostException is
\* thrown; redisReconnect[i] is the result of the i-th call
handleCriticalError(recurse, redisReconnect) ==
    IF recurse < connectionRetryCount
    THEN recreateContext(recurse + 1, redisReconnect)
    ELSE 0

recreateContext(recurse, redisReconnect) ==
    1 + (IF redisReconnect[recurse] = "REDIS_ERR"
         THEN handleCriticalError(recurse, redisReconnect)
         ELSE 0)

\* the exception it throws, "" when it returns
handlePotentialMovedError(err_str) ==
    IF SubSeq(err_str, 1, 6) # "MOVED " THEN "" ELSE "RedirectedException"

\* the exception it throws; sizeof counts the terminating zero
handleCommandError(err_str) ==
    IF Len(err_str) > Len("CLUSTERDO") + 1 THEN "ConnectionLostException"
    ELSE IF Len(err_str) > Len("MOVED") + 1 /\ handlePotentialMovedError(err_str) # ""
    THEN "RedirectedException"
    ELSE "IOException"

\* a result computed by node n
Served(n) == [NoRes EXCEPT !.kind = "ret", !.what = n]

Outcome(thrown, result, reconnects, reply) ==
    [thrown |-> thrown, result |-> result, reconnects |-> reconnects, reply |-> reply]

\* fn(conn): the operation op on the connection to node n, whose command gets
\* reply.  remove reads the type of its reply without a test for null; ub is
\* what that read does.  UNLINK is in no transaction: it has no EXEC reply.
fn(op, n, reply, redisReconnect, ub) ==
    IF op = "remove"
    THEN IF reply.type = "null" THEN Outcome(ub.thrown, ub.result, 0, "null")
         ELSE IF reply.type \in {"ok", "badexec"} THEN Outcome("", Served(n), 0, "ok")
         ELSE Outcome("", RetBool(FALSE), 0, reply.type)
    ELSE CASE reply.type = "null" ->
                 Outcome("ConnectionLostException", NoRes,
                         handleCriticalError(0, redisReconnect), "null")
           [] reply.type = "error" -> Outcome(handleCommandError(reply.str), NoRes, 0, "error")
           [] reply.type = "badtype" -> Outcome("IOException", NoRes, 0, "badtype")
           [] reply.type = "badexec" ->
                 Outcome(handleCommandError("incorrect amount of results from EXEC"),
                         NoRes, 0, "badexec")
           [] OTHER -> Outcome("", Served(n), 0, "ok")

\* what a read through a null pointer can do
UbOutcomes == {[thrown |-> "crash", result |-> NoRes],
               [thrown |-> "", result |-> RetBool(FALSE)]}

(***************************************************************************)
(* The slot map.                                                            *)
(***************************************************************************)
\* ClusterRange::compare orders the entries by start, then by end
Least(map) ==
    CHOOSE r \in map : \A q \in map :
        \/ r.range.from < q.range.from
        \/ r.range.from = q.range.from /\ r.range.to <= q.range.to

RECURSIVE InOrder(_)
InOrder(map) ==
    IF map = {} THEN <<>> ELSE <<Least(map)>> \o InOrder(map \ {Least(map)})

\* a lookup that orders the entries against the slot by their starts
findNodeEntryByStart(map, slot) ==
    LET notLess == {r \in map : ~(r.range.from < slot)}
    IN  IF notLess = {} THEN NULL
        ELSE IF slot < Least(notLess).range.from THEN NULL
        ELSE Least(notLess)

\* m_cluster_map.find(id): the first entry that is not left of the slot, if
\* the slot is not left of it
findNodeEntryUnguarded(map, slot) ==
    LET notLess == {r \in map : ~(r.range.to < slot)}
    IN  IF notLess = {} THEN NULL
        ELSE IF slot < Least(notLess).range.from THEN NULL
        ELSE Least(notLess)

\* insert_or_assign
CacheSetter(map, range, node) ==
    {r \in map : r.range # range} \cup {Row(range, node)}

RECURSIVE iterateRows(_, _, _)
\* the loop of iterateSlots, from row i
iterateRows(map, element, i) ==
    IF i > Len(element) THEN [map |-> map, thrown |-> ""]
    ELSE IF element[i].elements < 3 THEN [map |-> map, thrown |-> "IOException"]
    ELSE iterateRows(CacheSetter(map, element[i].range, element[i].node), element, i + 1)

\* a null reply fails the assertion of ensureType, or is read where
\* assertions are compiled out
iterateSlots(map, reply) ==
    IF reply.type = "null" THEN [map |-> map, thrown |-> "crash"]
    ELSE IF reply.type # "array" THEN [map |-> map, thrown |-> "IOException"]
    ELSE iterateRows(map, reply.element, 1)

RECURSIVE seedLoop(_, _)
\* the loop of the constructor over initialNodes, from seed i
seedLoop(map, i) ==
    IF i > Len(initialNodes) THEN [map |-> map, thrown |-> ""]
    ELSE IF slotsReply[initialNodes[i]] = "refused" THEN seedLoop(map, i + 1)
    ELSE LET r == iterateSlots(map, ClusterSlots(initialNodes[i]))
         IN  IF r.thrown \in {"", "crash"} THEN r ELSE seedLoop(r.map, i + 1)

\* the key of a cached connection: the address of an entry of a map
Key(map, range) == [map |-> map, range |-> range]

RECURSIVE CacheReseter(_, _, _, _)
\* std::any_of(previous_map, CacheReseter), from entry i
CacheReseter(previous_map, i, map, conns) ==
    IF i > Len(previous_map)
    THEN [map |-> map, conns |-> conns, thrown |-> "XMLToolingException"]
    ELSE IF slotsReply[previous_map[i].node] = "refused"
    THEN CacheReseter(previous_map, i + 1, map, conns)
    ELSE LET r == iterateSlots(map, ClusterSlots(previous_map[i].node))
             cached == conns \cup {Key("previous_map", previous_map[i].range)}
         IN  IF r.thrown \in {"", "crash"}
             THEN [map |-> r.map, conns |-> cached, thrown |-> r.thrown]
             ELSE CacheReseter(previous_map, i + 1, r.map, cached)

resetSlotsCacheUnguarded(map) == CacheReseter(InOrder(map), 1, {}, {})

tryWaitWithRetryNumber(retry) == ~(retry > maxRetries)

(***************************************************************************)
(* The router.                                                              *)
(***************************************************************************)
NoRCall == [op |-> "none", slot |-> 0, recurse |-> 0, attempts |-> 0, waits |-> 0,
            rebuilds |-> 0, last |-> "", reconnects |-> 0, scanned |-> <<>>]

StartCluster ==
    /\ owner = "A"
    /\ slotsReply = [n \in Nodes |-> "rows"]
    /\ opReply = "serve"
    /\ m_cluster_map = {}
    /\ m_connection_map = {}
    /\ rpc = "none"
    /\ rcall = NoRCall
    /\ rres = NoRes

Alive == rres.kind # "crash"

\* the cluster has one kind of fault at a time: its nodes fail to report the
\* slots, or they fail to serve commands
OneFault(s, r) == r = "serve" \/ s = [n \in Nodes |-> "rows"]

\* the cluster changes: the slots move, or a node or the commands begin or
\* end to fail
Changes ==
    {[owner |-> o, slotsReply |-> slotsReply, opReply |-> opReply] : o \in Nodes}
    \cup {[owner |-> owner, slotsReply |-> [slotsReply EXCEPT ![n] = s], opReply |-> opReply] :
              n \in Nodes, s \in SlotsReplies}
    \cup {[owner |-> owner, slotsReply |-> slotsReply, opReply |-> r] : r \in OpReplies}

Environment ==
    /\ Alive
    /\ \E e \in Changes :
          /\ OneFault(e.slotsReply, e.opReply)
          /\ <<e.owner, e.slotsReply, e.opReply>> # <<owner, slotsReply, opReply>>
          /\ owner' = e.owner
          /\ slotsReply' = e.slotsReply
          /\ opReply' = e.opReply
    /\ rpc' = IF rpc = "done" THEN "idle" ELSE rpc
    /\ rcall' = IF rpc = "done" THEN NoRCall ELSE rcall
    /\ rres' = IF rpc = "done" THEN NoRes ELSE rres
    /\ UNCHANGED <<m_cluster_map, m_connection_map>>
    /\ UNCHANGED <<svars, pvars, tvars>>

\* RedisCluster::RedisCluster
RedisCluster ==
    /\ rpc = "none"
    /\ LET r == seedLoop({}, 1)
       IN  /\ m_cluster_map' = r.map
           /\ rpc' = IF r.thrown = "crash" THEN "done" ELSE "idle"
           /\ rres' = IF r.thrown = "crash" THEN Crash ELSE NoRes
    /\ rcall' = [NoRCall EXCEPT !.op = "RedisCluster"]
    /\ UNCHANGED <<owner, slotsReply, opReply, m_connection_map>>
    /\ UNCHANGED <<svars, pvars, tvars>>

\* how wrappedCall leaves its try block, with the exception it caught
Finish(cl, conns, o) ==
    IF o.thrown \in {"ConnectionLostException", "RedirectedException"}
    THEN IF tryWaitWithRetryNumber(cl.recurse)
         THEN [pc |-> "wait", call |-> [cl EXCEPT !.waits = @ + 1], res |-> NoRes,
               conns |-> conns]
         ELSE [pc |-> "done", call |-> cl, res |-> Throw(o.thrown), conns |-> conns]
    ELSE [pc |-> "done", call |-> cl, conns |-> conns,
          res |-> IF o.thrown = "" THEN o.result
                  ELSE IF o.thrown = "crash" THEN Crash
                  ELSE Throw(o.thrown)]

\* the try block of wrappedCall: find the entry of the slot, get or make the
\* connection to its node, invoke the operation
Try(cl, redisReconnect, ub) ==
    LET node == findNodeEntryUnguarded(m_cluster_map, cl.slot)
        key == Key("m_cluster_map", node.range)
        tried == [cl EXCEPT !.attempts = @ + 1]
        o == IF node = NULL
             THEN \* connect is called through the null pointer
                  Outcome("crash", NoRes, 0, "")
             ELSE IF key \notin m_connection_map /\ slotsReply[node.node] = "refused"
             THEN Outcome("ConnectionLostException", NoRes, 0, "refused")
             ELSE fn(cl.op, node.node, Command(node.node, cl.slot), redisReconnect, ub)
        conns == IF node = NULL \/ o.reply = "refused" THEN m_connection_map
                 ELSE m_connection_map \cup {key}
    IN  Finish([tried EXCEPT !.last = o.thrown, !.reconnects = o.reconnects], conns, o)

\* the node wrappedCall sends the operation to, "" when it finds none
Target(cl) == findNodeEntryUnguarded(m_cluster_map, cl.slot).node

\* the reply that node gives to the operation
Reply(cl) == Command(Target(cl), cl.slot)

\* the results redisReconnect can have, where it is called
Reconnects(cl) ==
    IF Target(cl) # "" /\ cl.op # "remove" /\ Reply(cl).type = "null"
    THEN [1..connectionRetryCount -> {"REDIS_OK", "REDIS_ERR"}]
    ELSE {[i \in 1..connectionRetryCount |-> "REDIS_OK"]}

Invoke(cl) ==
    /\ \E redisReconnect \in Reconnects(cl),
          ub \in IF cl.op = "remove" THEN UbOutcomes ELSE {CHOOSE u \in UbOutcomes : TRUE} :
          LET t == Try(cl, redisReconnect, ub)
          IN  /\ rpc' = t.pc
              /\ rcall' = t.call
              /\ rres' = t.res
              /\ m_connection_map' = t.conns
    /\ UNCHANGED <<owner, slotsReply, opReply, m_cluster_map>>
    /\ UNCHANGED <<svars, pvars, tvars>>

\* a router operation: wrappedCall(id, fn, 0)
wrappedCall(op, slot) ==
    /\ rpc \in {"idle", "done"}
    /\ Alive
    /\ Invoke([NoRCall EXCEPT !.op = op, !.slot = slot])

\* rebuildRangeMappingUniqueLocked in a handler of wrappedCall, after the wait
rebuildRangeMappingUniqueLocked ==
    /\ rpc = "wait"
    /\ LET r == resetSlotsCacheUnguarded(m_cluster_map)
       IN  /\ m_cluster_map' = r.map
           /\ m_connection_map' = r.conns
           /\ rpc' = IF r.thrown = "" THEN "call" ELSE "done"
           /\ rres' = IF r.thrown = "" THEN NoRes
                      ELSE IF r.thrown = "crash" THEN Crash
                      ELSE Throw(r.thrown)
           /\ rcall' = [rcall EXCEPT !.rebuilds = @ + 1,
                                     !.recurse = IF r.thrown = "" THEN @ + 1 ELSE @]
    /\ UNCHANGED <<owner, slotsReply, opReply>>
    /\ UNCHANGED <<svars, pvars, tvars>>

\* wrappedCall(id, fn, recurse + 1) in a handler of wrappedCall
wrappedCallRecurse ==
    /\ rpc = "call"
    /\ Invoke(rcall)

(***************************************************************************)
(* Threads in the router.  Each thread runs one router call at a time: an   *)
(* operation through wrappedCall, or scanContext over every node.  A step   *)
(* of a thread is its code up to the next point where it takes a lock or    *)
(* waits for the server.  The cluster is healthy while the threads run; an  *)
(* operation may still end with ConnectionLostException.                    *)
(***************************************************************************)
Threads == {"t1", "t2"}
ThreadOps == {"set", "remove", "scanContext"}
ThreadSlots == {7000, 9000}

\* no connection
NoConn == Key("", Range(0, 0))
ConnKeys == {Key(m, r) : m \in {"m_cluster_map", "previous_map"}, r \in {Low, High}}

NoTCall == [op |-> "none", slot |-> 0, recurse |-> 0, i |-> 0, conn |-> NoConn,
            previous_map |-> {}, thrown |-> ""]

StartThreads ==
    /\ m_shared_mutex = [readers |-> {}, writer |-> "none"]
    /\ m_mutex = [k \in ConnKeys |-> "none"]
    /\ tpc = [t \in Threads |-> "idle"]
    /\ tcall = [t \in Threads |-> NoTCall]

\* RWLock::rdlock and RWLock::wrlock return when the lock is granted
CanRead(mutex) == mutex.writer = "none"
CanWriteAmongReaders(mutex) == mutex.writer = "none"
CanWrite(mutex) == mutex.readers = {} /\ mutex.writer = "none"

\* the end of the scope of slock: the try block of wrappedCall is left, by
\* return or by an exception, before a handler runs
UnlockAfterHandler(mutex, t) == mutex
Unlock(mutex, t) == [mutex EXCEPT !.readers = @ \ {t}]

\* SharedLock slock(m_shared_mutex) at the head of a router call
SharedLock(t, cl) ==
    /\ CanRead(m_shared_mutex)
    /\ m_shared_mutex' = [m_shared_mutex EXCEPT !.readers = @ \cup {t}]
    /\ tpc' = [tpc EXCEPT ![t] = "find"]
    /\ tcall' = [tcall EXCEPT ![t] = cl]
    /\ UNCHANGED <<m_mutex, m_cluster_map, m_connection_map>>
    /\ UNCHANGED <<owner, slotsReply, opReply, rpc, rcall, rres>>
    /\ UNCHANGED <<svars, pvars>>

\* a thread enters a router operation or the router's scanContext
threadCall(t, op, slot) ==
    /\ rpc = "idle"
    /\ tpc[t] = "idle"
    /\ SharedLock(t, [NoTCall EXCEPT !.op = op, !.slot = slot, !.i = 1])

\* wrappedCall(id, fn, recurse + 1) after the rebuild
threadCallRecurse(t) ==
    /\ tpc[t] = "call"
    /\ SharedLock(t, tcall[t])

\* the entry a router call dispatches: the one of the id's slot, or the i-th
\* of the slot map
Dispatched(cl) ==
    IF cl.op = "scanContext" THEN InOrder(m_cluster_map)[cl.i]
    ELSE findNodeEntryUnguarded(m_cluster_map, cl.slot)

\* dispatchConnectionUnguarded: m_connection_map.find(node)
dispatchFind(t) ==
    /\ tpc[t] = "find"
    /\ LET key == Key("m_cluster_map", Dispatched(tcall[t]).range)
       IN  /\ tcall' = [tcall EXCEPT ![t].conn = key]
           /\ tpc' = [tpc EXCEPT ![t] = IF key \in m_connection_map THEN "fn" ELSE "insert"]
    /\ UNCHANGED <<m_shared_mutex, m_mutex, m_cluster_map, m_connection_map>>
    /\ UNCHANGED <<owner, slotsReply, opReply, rpc, rcall, rres>>
    /\ UNCHANGED <<svars, pvars>>

\* dispatchConnectionUnguarded: m_connection_map.insert(node, node->connect())
\* after a miss.  An insertion while another thread is in the map is a data
\* race: the insertion takes place, or the process crashes.
dispatchInsert(t) ==
    /\ tpc[t] = "insert"
    /\ m_connection_map' = m_connection_map \cup {tcall[t].conn}
    /\ \E crash \in IF \E u \in Threads \ {t} : tpc[u] \in {"find", "insert"}
                    THEN BOOLEAN ELSE {FALSE} :
          tpc' = IF crash THEN [u \in Threads |-> "crashed"]
                 ELSE [tpc EXCEPT ![t] = "fn"]
    /\ UNCHANGED <<m_shared_mutex, m_mutex, tcall, m_cluster_map>>
    /\ UNCHANGED <<owner, slotsReply, opReply, rpc, rcall, rres>>
    /\ UNCHANGED <<svars, pvars>>

\* the connection's operation: Lock ulock(m_mutex), then its commands go out
threadLock(t) ==
    /\ tpc[t] = "fn"
    /\ m_mutex[tcall[t].conn] = "none"
    /\ m_mutex' = [m_mutex EXCEPT ![tcall[t].conn] = t]
    /\ tpc' = [tpc EXCEPT ![t] = "reply"]
    /\ UNCHANGED <<m_shared_mutex, tcall, m_cluster_map, m_connection_map>>
    /\ UNCHANGED <<owner, slotsReply, opReply, rpc, rcall, rres>>
    /\ UNCHANGED <<svars, pvars>>

\* the last reply of the connection's operation arrives and the operation
\* returns or raises; the router's scanContext goes on with the next entry,
\* wrappedCall returns, or waits before a rebuild, or rethrows
threadReply(t) ==
    /\ tpc[t] = "reply"
    /\ m_mutex' = [m_mutex EXCEPT ![tcall[t].conn] = "none"]
    /\ \E thrown \in IF tcall[t].op = "scanContext" THEN {""}
                     ELSE {"", "ConnectionLostException"} :
          LET cl == tcall[t]
              more == cl.op = "scanContext" /\ cl.i < Cardinality(m_cluster_map)
              wait == thrown # "" /\ tryWaitWithRetryNumber(cl.recurse)
          IN  /\ tpc' = [tpc EXCEPT ![t] = IF more THEN "find"
                                           ELSE IF wait THEN "wait" ELSE "idle"]
              /\ tcall' = [tcall EXCEPT ![t] =
                              IF more THEN [cl EXCEPT !.i = @ + 1, !.conn = NoConn]
                              ELSE [cl EXCEPT !.thrown = thrown, !.conn = NoConn]]
              /\ m_shared_mutex' = IF more THEN m_shared_mutex
                                   ELSE Unlock(m_shared_mutex, t)
    /\ UNCHANGED <<m_cluster_map, m_connection_map>>
    /\ UNCHANGED <<owner, slotsReply, opReply, rpc, rcall, rres>>
    /\ UNCHANGED <<svars, pvars>>

\* rebuildRangeMappingUniqueLocked: UniqueLock ulock(m_shared_mutex)
UniqueLock(t) ==
    /\ tpc[t] = "wait"
    /\ CanWrite(m_shared_mutex)
    /\ m_shared_mutex' = [m_shared_mutex EXCEPT !.writer = t]
    /\ tpc' = [tpc EXCEPT ![t] = "rebuild"]
    /\ UNCHANGED <<m_mutex, tcall, m_cluster_map, m_connection_map>>
    /\ UNCHANGED <<owner, slotsReply, opReply, rpc, rcall, rres>>
    /\ UNCHANGED <<svars, pvars>>

\* resetSlotsCacheUnguarded up to CLUSTER SLOTS of iterateSlots: the cache
\* and the map are cleared, CacheReseter dispatches the connection of the
\* first previous entry and asks it for the slots
threadRebuild(t) ==
    /\ tpc[t] = "rebuild"
    /\ LET first == InOrder(m_cluster_map)[1]
           key == Key("previous_map", first.range)
       IN  /\ m_connection_map' = {key}
           /\ m_cluster_map' = {}
           /\ tcall' = [tcall EXCEPT ![t].previous_map = m_cluster_map, ![t].conn = key]
    /\ m_mutex' = [k \in ConnKeys |-> "none"]
    /\ tpc' = [tpc EXCEPT ![t] = "slots"]
    /\ UNCHANGED <<m_shared_mutex>>
    /\ UNCHANGED <<owner, slotsReply, opReply, rpc, rcall, rres>>
    /\ UNCHANGED <<svars, pvars>>

\* the reply to CLUSTER SLOTS arrives: CacheSetter fills the map, the
\* rebuild returns and its lock is released
threadSlots(t) ==
    /\ tpc[t] = "slots"
    /\ LET r == resetSlotsCacheUnguarded(tcall[t].previous_map)
       IN  /\ m_cluster_map' = r.map
           /\ m_connection_map' = r.conns
    /\ m_shared_mutex' = [m_shared_mutex EXCEPT !.writer = "none"]
    /\ tcall' = [tcall EXCEPT ![t].recurse = @ + 1, ![t].previous_map = {},
                              ![t].conn = NoConn]
    /\ tpc' = [tpc EXCEPT ![t] = "call"]
    /\ UNCHANGED <<m_mutex>>
    /\ UNCHANGED <<owner, slotsReply, opReply, rpc, rcall, rres>>
    /\ UNCHANGED <<svars, pvars>>

(***************************************************************************)
(* RedisCluster::scanContextTypeless: the loop over the entries of the slot *)
(* map.  SCAN names no key: a node never answers it with MOVED.             *)
(***************************************************************************)
\* what conn->scanContext raises on the connection to node n, "" when it
\* scans the node
ScanThrown(n) ==
    IF slotsReply[n] = "refused" \/ opReply = "null" THEN "ConnectionLostException"
    ELSE IF opReply = "badtype" THEN "IOException"
    ELSE ""

RECURSIVE scanLoop(_, _, _, _)
\* from entry i: the connections cached and the nodes scanned so far
scanLoop(entries, i, conns, scanned) ==
    IF i > Len(entries) THEN [conns |-> conns, scanned |-> scanned, thrown |-> ""]
    ELSE LET key == Key("m_cluster_map", entries[i].range)
             n == entries[i].node
         IN  IF key \notin conns /\ slotsReply[n] = "refused"
             THEN [conns |-> conns, scanned |-> scanned,
                   thrown |-> "ConnectionLostException"]
             ELSE IF ScanThrown(n) # ""
             THEN [conns |-> conns \cup {key}, scanned |-> scanned,
                   thrown |-> ScanThrown(n)]
             ELSE scanLoop(entries, i + 1, conns \cup {key}, Append(scanned, n))

scanContextTypeless ==
    /\ rpc \in {"idle", "done"}
    /\ Alive
    /\ LET r == scanLoop(InOrder(m_cluster_map), 1, m_connection_map, <<>>)
       IN  /\ m_connection_map' = r.conns
           /\ rcall' = [NoRCall EXCEPT !.op = "scanContext", !.scanned = r.scanned,
                                       !.last = r.thrown]
           /\ rres' = IF r.thrown = "" THEN Ret(0) ELSE Throw(r.thrown)
    /\ rpc' = "done"
    /\ UNCHANGED <<owner, slotsReply, opReply, m_cluster_map>>
    /\ UNCHANGED <<svars, pvars, tvars>>

\* no application of a pure function
NoArg == [fn |-> "none"]
NoOut == [fn |-> "none"]

(***************************************************************************)
(* Hash slots: StorageId::hashSlotUsing over RedisCrc16 on the client, the  *)
(* hash-tag rule of the server on the rendered key.  A string is hashed     *)
(* byte by byte.                                                            *)
(***************************************************************************)
\* the byte of a character
Byte(ch) ==
    CASE ch = "{" -> 123 [] ch = "}" -> 125 [] ch = ":" -> 58 [] ch = "." -> 46
      [] ch = "a" -> 97  [] ch = "e" -> 101 [] ch = "f" -> 102 [] ch = "i" -> 105
      [] ch = "k" -> 107 [] ch = "n" -> 110 [] ch = "o" -> 111 [] ch = "p" -> 112
      [] ch = "r" -> 114 [] ch = "s" -> 115 [] ch = "v" -> 118

RECURSIVE Xor(_, _)
\* a ^ b
Xor(a, b) ==
    IF a = 0 THEN b
    ELSE IF b = 0 THEN a
    ELSE ((a + b) % 2) + 2 * Xor(a \div 2, b \div 2)

RECURSIVE Crc16Shift(_, _)
\* n steps of the CRC-16/XMODEM division, polynomial 0x1021
Crc16Shift(crc, n) ==
    IF n = 0 THEN crc
    ELSE Crc16Shift(IF crc >= 32768 THEN Xor((2 * crc) % 65536, 4129) ELSE 2 * crc, n - 1)

\* the table of RedisCrc16
Crc16Constants(i) == Crc16Shift(i * 256, 8)

\* RedisCrc16::Initial and RedisCrc16::HashSlotCount
Initial == 0
HashSlotCount == 16384

\* RedisCrc16::operator()
RedisCrc16(accumulator, byte) ==
    Xor((accumulator * 256) % 65536,
        Crc16Constants(Xor(accumulator \div 256, byte) % 256))

RECURSIVE calculate(_, _)
\* RedisCrc16::calculate: std::accumulate over the bytes of str
calculate(str, initial) ==
    IF Len(str) = 0 THEN initial
    ELSE calculate(SubSeq(str, 2, Len(str)),
                   RedisCrc16(initial, Byte(SubSeq(str, 1, 1))))

\* StorageId::hashSlotUsing, for the id (context, prefix, key)
hashSlotUsing(id) ==
    LET context == calculate(id.context, Initial)
        colon == calculate(":", context)
        prefixed == calculate(id.prefix, colon)
        total == calculate(id.key, prefixed)
    IN  total % HashSlotCount

\* SPREDIS_SID_FMT and the version key made of it
Render(id) == "{" \o id.context \o ":" \o id.prefix \o id.key \o "}"

\* the positions of character ch in str from position i on
Positions(str, ch, i) == {j \in i..Len(str) : SubSeq(str, j, j) = ch}
Min(S) == CHOOSE x \in S : \A y \in S : x <= y

\* the slot the server computes for a key: the hash of the bytes between the
\* first "{" and the first "}" after it when there are any, of the whole key
\* otherwise
keyHashSlot(k) ==
    IF Positions(k, "{", 1) = {} THEN calculate(k, 0) % 16384
    ELSE LET s == Min(Positions(k, "{", 1))
         IN  IF Positions(k, "}", s + 1) = {} \/ Min(Positions(k, "}", s + 1)) = s + 1
             THEN calculate(k, 0) % 16384
             ELSE calculate(SubSeq(k, s + 1, Min(Positions(k, "}", s + 1)) - 1), 0) % 16384

\* the strings of the ids whose slots are computed
MaxLen == 2
Alphabet == {"a", "{", "}"}
RECURSIVE Strings(_)
Strings(n) ==
    IF n = 0 THEN {""}
    ELSE Strings(n - 1) \cup {s \o ch : s \in Strings(n - 1), ch \in Alphabet}

StorageIds ==
    {[context |-> c, prefix |-> p, key |-> k] :
        c \in Strings(MaxLen) \ {""}, p \in {"", "p:"}, k \in Strings(MaxLen)}

\* the slots of an id: the one the client computes, and the ones the server
\* computes for its data key and for its version key
hashSlot ==
    /\ arg.fn = "hashSlot"
    /\ out = NoOut
    /\ out' = [fn |-> "hashSlot",
               client |-> hashSlotUsing(arg.id),
               data |-> keyHashSlot(Render(arg.id)),
               version |-> keyHashSlot(VersionOf(Render(arg.id)))]
    /\ UNCHANGED <<svars, cvars, arg, tvars>>

(***************************************************************************)
(* The back-off of the router.  An unsigned int has 32 bits; a number is    *)
(* kept as its two halves of 16 bits, hi and lo.  Add and Times compute     *)
(* without a limit on hi; Unsigned is the value an unsigned int keeps.      *)
(***************************************************************************)
Half == 65536
Word(hi, lo) == [hi |-> hi, lo |-> lo]
Add(a, b) == Word(a.hi + b.hi + ((a.lo + b.lo) \div Half), (a.lo + b.lo) % Half)
RECURSIVE Times(_, _)
Times(a, n) ==
    IF n = 0 THEN Word(0, 0)
    ELSE LET d == Times(a, n \div 2)
         IN  IF n % 2 = 1 THEN Add(Add(d, d), a) ELSE Add(d, d)
Unsigned(a) == Word(a.hi % Half, a.lo)
Less(a, b) == a.hi < b.hi \/ (a.hi = b.hi /\ a.lo < b.lo)
\* std::min
Smaller(a, b) == IF Less(b, a) THEN b ELSE a

waitTime(config) == IF config = Word(0, 0) THEN Word(Half - 1, Half - 1) ELSE config

\* the microseconds tryWaitWithRetryNumber passes to usleep
usTrueWait(config, retryUnsigned) ==
    LET toWait == Unsigned(Times(config.baseWait, 2 ^ retryUnsigned))
    IN  Unsigned(Times(Smaller(toWait, waitTime(config.maxWait)), 1000))

\* the configurations of the back-off: 1, 500, 4294967, 4294968 and 2^32 - 1
\* milliseconds of base wait; no cap, or a cap of 1000, 4294967 or 5000000
MaxAttempt == 3
BaseWaits == {Word(0, 1), Word(0, 500), Word(65, 35127), Word(65, 35128),
              Word(Half - 1, Half - 1)}
MaxWaits == {Word(0, 0), Word(0, 1000), Word(65, 35127), Word(76, 19264)}

\* tryWaitWithRetryNumber(recurse) in the handlers of wrappedCall, for
\* recurse = 0, 1, ... until it returns false
backOff ==
    /\ arg.fn = "tryWaitWithRetryNumber"
    /\ IF out = NoOut THEN TRUE ELSE out.returned
    /\ LET retry == IF out = NoOut THEN 0 ELSE out.retry + 1
           waits == IF out = NoOut THEN <<>> ELSE out.waits
       IN  out' = [fn |-> "tryWaitWithRetryNumber",
                   retry |-> retry,
                   returned |-> ~(retry > arg.maxRetries),
                   waits |-> IF retry > arg.maxRetries THEN waits
                             ELSE Append(waits, usTrueWait(arg, retry))]
    /\ UNCHANGED <<svars, cvars, arg, tvars>>

\* the error texts the classifier is applied to
Prefixes == {"MOVED ", "MOVED", "CLUSTERDOWN", "ASK ", "ERR ", "WRONGTYPE "}
Suffixes == {"", "7", "7 B", "7 B:", "7 B:1", "7000 B:6379", "x",
             " The cluster is down", "Operation against a key"}
ErrorTexts == {p \o x : p \in Prefixes, x \in Suffixes}

\* the text begins with the prefix
Begins(err_str, p) == Len(err_str) >= Len(p) /\ SubSeq(err_str, 1, Len(p)) = p

\* handleCommandError on the text of an error reply
classify ==
    /\ arg.fn = "handleCommandError"
    /\ out = NoOut
    /\ out' = [fn |-> "handleCommandError", thrown |-> handleCommandError(arg.err_str)]
    /\ UNCHANGED <<svars, cvars, arg, tvars>>

\* the slot maps whose ranges lie in 0 .. MaxMark and do not overlap: the
\* ranges of a map whose least start is lo or more
MaxMark == 4
RECURSIVE DisjointMaps(_)
DisjointMaps(lo) ==
    {{}} \cup UNION {{{Row(Range(r[1], r[2]), n)} \cup rest :
                        n \in Nodes, rest \in DisjointMaps(r[2] + 1)} :
                     r \in {q \in (lo..MaxMark) \X (lo..MaxMark) : q[1] <= q[2]}}

\* the ranges of a map that contain the slot
Containing(map, slot) ==
    {r \in map : r.range.from <= slot /\ slot <= r.range.to}

\* findNodeEntryUnguarded(id) on a slot map, for an id of the slot arg.slot
findNodeEntry ==
    /\ arg.fn = "findNodeEntry"
    /\ out = NoOut
    /\ out' = [fn |-> "findNodeEntry",
               entry |-> findNodeEntryUnguarded(arg.map, arg.slot)]
    /\ UNCHANGED <<svars, cvars, arg, tvars>>

(***************************************************************************)
(* Initial states: the empty store, every connection idle.  History of the  *)
(* returned versions is kept for the ids in ids.                            *)
(***************************************************************************)
StartClients(ids) ==
    /\ watched = [c \in Conns |-> {}]
    /\ dirty = [c \in Conns |-> FALSE]
    /\ pc = [c \in Conns |-> "idle"]
    /\ call = [c \in Conns |-> NoCall]
    /\ res = [c \in Conns |-> NoRes]
    /\ hiAll = [i \in ids |-> 0]
    /\ hiSince = [i \in ids |-> 0]
    /\ StartCluster
    /\ StartThreads

StartSystem(ids) ==
    /\ store = [k \in RedisKeys |-> Missing]
    /\ StartClients(ids)

Start(ids) ==
    /\ StartSystem(ids)
    /\ arg = NoArg
    /\ out = NoOut

\* the steps inside set and updateVersioned, and inside getVersioned
UpdateSteps(c) ==
    \/ setUnlink(c)
    \/ uvWatch(c)
    \/ uvGetOnlyVersion(c)
    \/ uvExec(c)

ReadSteps(c) ==
    \/ gvWatch(c)
    \/ gvGetOnlyVersion(c)
    \/ gvExec(c)

\* the calls of the storage service, over all inputs
Reads(c) ==
    \E id \in Ids, wantV \in BOOLEAN, wantE \in BOOLEAN, minVersion \in 1..MaxVersion :
        getVersioned(c, id, wantV, wantE, minVersion)

Calls(c) ==
    \/ \E id \in Ids, value \in Values, expiration \in Exps : set(c, id, value, expiration)
    \/ \E id \in Ids, wantV \in BOOLEAN, wantE \in BOOLEAN : forceGet(c, id, wantV, wantE)
    \/ \E id \in Ids, value \in Values, expiration \in Exps \cup {0} :
          forceUpdate(c, id, value, expiration)
    \/ \E id \in Ids : remove(c, id)
    \/ \E id \in Ids, value \in Values, expiration \in Exps \cup {0}, ifVersion \in 1..MaxVersion :
          updateVersioned(c, id, value, expiration, ifVersion)
    \/ Reads(c)
    \/ \E context \in Contexts, expiration \in Exps : updateContext(c, context, expiration)
    \/ \E context \in Contexts : deleteContext(c, context)

(***************************************************************************)
(* Spec: the connections of two processes write the same id.  The inputs   *)
(* are cut to the ones that tell the writers' outcomes apart.               *)
(***************************************************************************)
SharedValues == {"new"}
SharedExps == {1700000000}

Writes(c) ==
    \/ \E id \in Ids, value \in SharedValues, expiration \in SharedExps :
          set(c, id, value, expiration)
    \/ \E id \in Ids, value \in SharedValues : forceUpdate(c, id, value, 0)
    \/ \E id \in Ids : remove(c, id)

SharedCalls(c) ==
    \/ Writes(c)
    \/ \E id \in Ids, value \in SharedValues, ifVersion \in 1..MaxVersion :
          updateVersioned(c, id, value, 0, ifVersion)

Init == Start({})

Next == \E c \in Conns : SharedCalls(c) \/ UpdateSteps(c)

Spec == Init /\ [][Next]_vars

(***************************************************************************)
(* SpecSeq: one connection, every operation over all inputs.  On its own a  *)
(* connection never has a transaction aborted inside getVersioned or        *)
(* updateVersioned, so the later rounds of their loops belong to Spec and   *)
(* SpecRead.                                                                *)
(***************************************************************************)
InitSeq == Start(Ids)

NextSeq ==
    \/ Calls("c1")
    \/ setUnlink("c1")
    \/ uvGetOnlyVersion("c1")
    \/ uvExec("c1")
    \/ gvGetOnlyVersion("c1")
    \/ gvExec("c1")

SpecSeq == InitSeq /\ [][NextSeq]_vars

(***************************************************************************)
(* SpecRead: one connection reads with getVersioned while another writes.   *)
(***************************************************************************)
NextRead ==
    \/ Reads("c1")
    \/ ReadSteps("c1")
    \/ Writes("c2")
    \/ setUnlink("c2")

SpecRead == Init /\ [][NextRead]_vars

(***************************************************************************)
(* SpecRetry: one connection runs getVersioned and updateVersioned while    *)
(* another writes.                                                          *)
(***************************************************************************)
NextRetry ==
    \/ Reads("c1")
    \/ ReadSteps("c1")
    \/ \E id \in Ids, value \in SharedValues, ifVersion \in 1..MaxVersion :
          updateVersioned("c1", id, value, 0, ifVersion)
    \/ uvWatch("c1")
    \/ uvGetOnlyVersion("c1")
    \/ uvExec("c1")
    \/ Writes("c2")
    \/ setUnlink("c2")

SpecRetry == Init /\ [][NextRetry]_vars

(***************************************************************************)
(* The router against a cluster that changes at any time.                   *)
(***************************************************************************)
InitCluster == Start({})

NextCluster ==
    \/ Environment
    \/ RedisCluster
    \/ \E op \in RouterOps, slot \in Slots : wrappedCall(op, slot)
    \/ rebuildRangeMappingUniqueLocked
    \/ wrappedCallRecurse

SpecCluster == InitCluster /\ [][NextCluster]_vars

(***************************************************************************)
(* The hash slots of the ids over a small alphabet.                         *)
(***************************************************************************)
InitSlot ==
    /\ StartSystem({})
    /\ arg \in {[fn |-> "hashSlot", id |-> i] : i \in StorageIds}
    /\ out = NoOut

NextSlot == hashSlot

SpecSlot == InitSlot /\ [][NextSlot]_vars

(***************************************************************************)
(* Lookups in the slot maps of non-overlapping ranges.                      *)
(***************************************************************************)
InitFind ==
    /\ StartSystem({})
    /\ arg \in {[fn |-> "findNodeEntry", map |-> m, slot |-> sl] :
                    m \in DisjointMaps(0), sl \in 0..MaxMark}
    /\ out = NoOut

NextFind == findNodeEntry

SpecFind == InitFind /\ [][NextFind]_vars

(***************************************************************************)
(* Two threads in one router of a healthy cluster.                          *)
(***************************************************************************)
InitThreads == Start({})

NextThreads ==
    \/ RedisCluster
    \/ \E t \in Threads, op \in ThreadOps, slot \in ThreadSlots : threadCall(t, op, slot)
    \/ \E t \in Threads : threadCallRecurse(t)
    \/ \E t \in Threads : dispatchFind(t)
    \/ \E t \in Threads : dispatchInsert(t)
    \/ \E t \in Threads : threadLock(t)
    \/ \E t \in Threads : threadReply(t)
    \/ \E t \in Threads : UniqueLock(t)
    \/ \E t \in Threads : threadRebuild(t)
    \/ \E t \in Threads : threadSlots(t)

SpecThreads == InitThreads /\ [][NextThreads]_vars

(***************************************************************************)
(* The error classifier on the texts of error replies.                      *)
(***************************************************************************)
InitClassify ==
    /\ StartSystem({})
    /\ arg \in {[fn |-> "handleCommandError", err_str |-> e] : e \in ErrorTexts}
    /\ out = NoOut

NextClassify == classify

SpecClassify == InitClassify /\ [][NextClassify]_vars

(***************************************************************************)
(* The waits of the successive retries of one router call.                  *)
(***************************************************************************)
InitWait ==
    /\ StartSystem({})
    /\ arg \in {[fn |-> "tryWaitWithRetryNumber", baseWait |-> b, maxWait |-> m,
                 maxRetries |-> n] :
                    b \in BaseWaits, m \in MaxWaits, n \in {1, MaxAttempt}}
    /\ out = NoOut

NextWait == backOff

SpecWait == InitWait /\ [][NextWait]_vars

(***************************************************************************)
(* set on a keyspace that holds any of the two keys of the id: keys come    *)
(* and go on the server by eviction and by other writers.                   *)
(***************************************************************************)
Keyspaces ==
    {[k \in RedisKeys |-> IF k \in DataKeys THEN d ELSE v] :
        d \in {Missing} \cup {[present |-> TRUE, val |-> x, exp |-> e] :
                                 x \in Values, e \in Exps},
        v \in {Missing} \cup {[present |-> TRUE, val |-> ToString(n), exp |-> e] :
                                 n \in 1..2, e \in Exps}}

InitSet ==
    /\ store \in Keyspaces
    /\ StartClients({})
    /\ arg = NoArg
    /\ out = NoOut

NextSet ==
    \/ \E id \in Ids, value \in Values, expiration \in Exps : set("c1", id, value, expiration)
    \/ setUnlink("c1")

SpecSet == InitSet /\ [][NextSet]_vars

(***************************************************************************)
(* The router's scanContext on a cluster that changes at any time.          *)
(***************************************************************************)
NextScan ==
    \/ Environment
    \/ RedisCluster
    \/ scanContextTypeless

SpecScan == InitCluster /\ [][NextScan]_vars

(***************************************************************************)
(* Properties.                                                              *)
(***************************************************************************)
Done(c, op) == pc[c] = "done" /\ call[c].op = op
Neither(st, id) == ~Has(st, DataKey(id)) /\ ~Has(st, VersionKey(id))
Entry(value, expiration) == [present |-> TRUE, val |-> value, exp |-> expiration]

\* C1: a set step creates the data key and the version key, at version 1, if
\* and only if neither key existed before it; it returns true exactly then;
\* and when the data key exists it returns false and changes nothing.
C1_SetCreatesIffAbsent ==
    [][\A c \in Conns, id \in Ids, value \in Values, expiration \in Exps :
          set(c, id, value, expiration) =>
             /\ Neither(store, id) <=> res'[c] = RetBool(TRUE)
             /\ Neither(store, id) <=>
                   /\ ~Has(store, DataKey(id)) /\ ~Has(store, VersionKey(id))
                   /\ store'[DataKey(id)] = Entry(value, expiration)
                   /\ store'[VersionKey(id)] = Entry("1", expiration)
             /\ Has(store, DataKey(id)) => res'[c] = RetBool(FALSE) /\ store' = store]_vars

\* C2: an updateVersioned(id, v, e, k) that began while id was stored at version
\* k, with no other connection touching id's keys, returns k + 1; and a forceGet
\* of the value that follows a successful updateVersioned returns the version
\* updateVersioned returned, with the value v.
C2_UpdateVersionedThenForceGet ==
    \A c \in Conns :
       /\ Done(c, "updateVersioned") /\ call[c].preVer = call[c].ver /\ ~call[c].intf
             => res[c] = Ret(call[c].ver + 1)
       /\ Done(c, "forceGet") /\ call[c].wantV
             /\ call[c].after.op = "updateVersioned" /\ call[c].after.n > 0
             => /\ res[c].kind = "ret"
                /\ res[c].val = call[c].after.n
                /\ res[c].gotV /\ res[c].outV = call[c].after.value

\* C2 happens: a forceGet has returned version 2 or more and the value written
\* by the updateVersioned before it.
C2_Witness ==
    \E c \in Conns :
       /\ Done(c, "forceGet") /\ call[c].wantV
       /\ call[c].after.op = "updateVersioned" /\ call[c].after.n >= 2
       /\ res[c].val = call[c].after.n /\ res[c].outV = call[c].after.value

\* C3: an updateVersioned that has returned -1 has written nothing to the store.
C3_MismatchWritesNothing ==
    \A c \in Conns :
       Done(c, "updateVersioned") /\ res[c] = Ret(-1) => ~call[c].wrote

\* C3 happens: an updateVersioned of a stored id has returned -1 while another
\* connection was writing the id.
C3_Witness ==
    \E c \in Conns :
       /\ Done(c, "updateVersioned") /\ res[c] = Ret(-1)
       /\ Exists(store, call[c].id) /\ call[c].intf

\* C4: of two connections that run updateVersioned on the same id with the same
\* ifVersion k at the same time, both begun while the stored version was k, at
\* most one returns k + 1; once both have returned, one has returned k + 1, the
\* other -1 or 0, and the stored version is k + 1.
Racing(c, d) ==
    /\ c # d
    /\ call[c].op = "updateVersioned" /\ call[d].op = "updateVersioned"
    /\ call[c].conc /\ call[d].conc
    /\ call[c].id = call[d].id /\ call[c].ver = call[d].ver
    /\ call[c].preVer = call[c].ver /\ call[d].preVer = call[d].ver

C4_OneWinner ==
    \A c, d \in Conns :
       Racing(c, d) =>
          /\ ~(res[c] = Ret(call[c].ver + 1) /\ res[d] = Ret(call[d].ver + 1))
          /\ pc[c] = "done" /\ pc[d] = "done" =>
                /\ StoredVersion(store, call[c].id) = call[c].ver + 1
                /\ \E w \in {c, d} :
                      /\ res[w] = Ret(call[w].ver + 1)
                      /\ \A l \in {c, d} \ {w} : res[l] \in {Ret(-1), Ret(0)}

\* C4 happens: both racing calls have returned, one with k + 1 and one with -1.
C4_Witness ==
    \E c, d \in Conns :
       /\ Racing(c, d) /\ pc[c] = "done" /\ pc[d] = "done"
       /\ res[c] = Ret(call[c].ver + 1) /\ res[d] = Ret(-1)

\* the step in which connection c's forceUpdate or updateVersioned of id
\* returns a new version
Updated(c, id) ==
    /\ call'[c].id = id /\ pc'[c] = "done"
    /\ res'[c].kind = "ret" /\ res'[c].val > 0
    /\ \/ uvExec(c)
       \/ \E value \in Values, expiration \in Exps \cup {0} :
             forceUpdate(c, id, value, expiration)

Returns(c) ==
    /\ pc'[c] = "done" /\ res'[c].kind = "ret"
    /\ Calls(c) \/ UpdateSteps(c) \/ ReadSteps(c)

\* C6: when an operation returns, every id has its data key if and only if it
\* has its version key.
C6_KeysCoexist ==
    [][\A c \in Conns :
          Returns(c) =>
             \A id \in Ids : Has(store', DataKey(id)) <=> Has(store', VersionKey(id))]_vars

\* C7: a set(id, v, e) of an id that had neither key, followed by a forceGet of
\* value and expiration, yields version 1, the value v and the expiration e.
C7_SetThenForceGet ==
    \A c \in Conns :
       Done(c, "forceGet") /\ call[c].wantV /\ call[c].wantE
          /\ call[c].after.op = "set" /\ call[c].after.fresh
          => res[c] = RetOut(1, TRUE, call[c].after.value, TRUE, call[c].after.exp)

\* C7 happens: a forceGet has followed the set of an id that had neither key.
C7_Witness ==
    \E c \in Conns :
       /\ Done(c, "forceGet") /\ call[c].wantV /\ call[c].wantE
       /\ call[c].after.op = "set" /\ call[c].after.fresh
       /\ res[c].val = 1 /\ res[c].outE = call[c].after.exp

\* a forceGet of value and expiration has followed a forceUpdate that returned
ReadBack(c) ==
    /\ Done(c, "forceGet") /\ call[c].wantV /\ call[c].wantE
    /\ call[c].after.op = "forceUpdate"

\* C8, as stated: forceUpdate(id, v2, e2) returning n, followed by a forceGet of
\* value and expiration, yields version n, the value v2 and the expiration e2,
\* for e2 = 0 too.
C8_AsStated ==
    \A c \in Conns :
       ReadBack(c) =>
          res[c] = RetOut(call[c].after.n, TRUE, call[c].after.value, TRUE, call[c].after.exp)

\* C8, amended: it yields version n, the value v2, and the expiration e2 when
\* e2 is not 0, the expiration id had before the forceUpdate when e2 is 0.
C8_ForceUpdateThenForceGet ==
    \A c \in Conns :
       ReadBack(c) =>
          res[c] = RetOut(call[c].after.n, TRUE, call[c].after.value, TRUE,
                          IF call[c].after.exp # 0 THEN call[c].after.exp
                                                   ELSE call[c].after.preExp)

\* C8 happens: a forceGet has followed a forceUpdate with expiration 0 and has
\* yielded the expiration the id had before.
C8_Witness ==
    \E c \in Conns :
       /\ ReadBack(c) /\ call[c].after.exp = 0
       /\ res[c].val = call[c].after.n /\ res[c].outE = call[c].after.preExp
       /\ res[c].outE \in Exps

\* C9: a forceGet of an id whose data key or version key is absent returns 0,
\* whichever outputs are asked for.
C9_ForceGetAbsent ==
    [][\A c \in Conns, id \in Ids, wantV \in BOOLEAN, wantE \in BOOLEAN :
          forceGet(c, id, wantV, wantE) /\ ~Exists(store, id) => res'[c] = Ret(0)]_vars

C11_UpdateMissingReturnsZero ==
    [][\A c \in Conns :
          uvGetOnlyVersion(c) /\ Neither(store, call[c].id)
             => pc'[c] = "done" /\ res'[c] = Ret(0)]_vars

\* C12: in getVersioned and updateVersioned an EXEC is at most the 3rd of its
\* call; an EXEC that answers nil is followed by another round when it is the
\* 1st or the 2nd, and ends the call with the value 0 when it is the 3rd; an
\* EXEC that does not answer nil ends the call.
C12_ThreeAttempts ==
    [][\A c \in Conns :
          uvExec(c) \/ gvExec(c) =>
             /\ call[c].tryCount + 1 <= 3
             /\ dirty[c] /\ call[c].tryCount + 1 < 3
                   => pc'[c] \in {"uv_watch", "gv_watch"}
                      /\ call'[c].tryCount = call[c].tryCount + 1
             /\ dirty[c] /\ call[c].tryCount + 1 = 3
                   => pc'[c] = "done" /\ res'[c] = Ret(0)
             /\ ~dirty[c] => pc'[c] = "done"]_vars

\* C12 happens: an updateVersioned has returned 0, its three EXECs aborted.
C12_Witness ==
    \E c \in Conns : Done(c, "updateVersioned") /\ res[c] = Ret(0)

\* the same for getVersioned
C12_WitnessRead ==
    \E c \in Conns : Done(c, "getVersioned") /\ call[c].wantE /\ res[c] = Ret(0)

\* C13: after a deleteContext(ctx) step no id of context ctx has its data key
\* or its version key, and the keys of the ids of other contexts are as before.
C13_DeleteContextDeletes ==
    [][\A c \in Conns, context \in Contexts :
          deleteContext(c, context) =>
             \A id \in Ids :
                IF id.context = context
                THEN Neither(store', id)
                ELSE \A k \in KeysOf(id) : store'[k] = store[k]]_vars

\* the step invokes the router operation op: a new call, or a retry
Invoked(op) ==
    /\ rpc \in {"idle", "done", "call"}
    /\ rcall'.op = op
    /\ wrappedCallRecurse \/ \E slot \in Slots : wrappedCall(op, slot)

\* the node the call is sent to answers with MOVED
MovedReply(cl) ==
    /\ Target(cl) # ""
    /\ Reply(cl).type = "error"
    /\ SubSeq(Reply(cl).str, 1, 6) = "MOVED "

\* C14: when the node a router operation is sent to answers MOVED, the
\* invocation returns nothing to the caller: the router waits and goes on to
\* rebuild the slot map (or, its retries used up, raises the error); this
\* holds for each of set, getVersioned, forceGet, updateVersioned, forceUpdate
\* and remove.
C14_MovedIsRetried ==
    [][\A op \in RouterOps :
          Invoked(op) /\ MovedReply(rcall') =>
             /\ rres'.kind # "ret"
             /\ tryWaitWithRetryNumber(rcall'.recurse) => rpc' = "wait"]_vars

\* C15: one router call invokes its operation at most 1 + maxRetries times,
\* the first invocation and at most maxRetries retries, and each retry comes
\* after one wait and one rebuild of the slot map.
C15_AtMostMaxRetries ==
    /\ rcall.attempts <= 1 + maxRetries
    /\ rpc = "done" => rcall.waits = rcall.rebuilds
    /\ rcall.rebuilds >= rcall.attempts - 1

\* every seed refuses the connection or fails to answer CLUSTER SLOTS
EverySeedFails == \A i \in 1..Len(initialNodes) : slotsReply[initialNodes[i]] # "rows"

\* C16: when every seed fails, the constructor raises the fatal error
\* (XMLToolingException) and no router is handed to the caller.
C16_SeedExhaustionIsFatal ==
    [][rpc = "none" /\ EverySeedFails /\ RedisCluster =>
          rpc' = "done" /\ rres' = Throw("XMLToolingException")]_vars

\* some node of the sequence answers CLUSTER SLOTS with its rows, after nodes
\* that refused the connection or whose reply broke off
Succeeds(entries) ==
    \E i \in 1..Len(entries) :
       /\ slotsReply[entries[i]] = "rows"
       /\ \A j \in 1..(i - 1) : slotsReply[entries[j]] \in {"refused", "partial"}

\* the nodes of the entries of the slot map, in the order of the map
NodesOf(map) == [i \in 1..Len(InOrder(map)) |-> InOrder(map)[i].node]

\* C17: after a startup or a rebuild in which a node answered CLUSTER SLOTS,
\* the slot map is exactly the set of rows of that answer: it has no entry
\* from a node that failed before, one whose reply broke off after some rows
\* included.
C17_MapIsFirstAnswer ==
    [][(\/ rpc = "none" /\ Succeeds(initialNodes) /\ RedisCluster
        \/ rpc = "wait" /\ Succeeds(NodesOf(m_cluster_map)) /\ rebuildRangeMappingUniqueLocked)
          => m_cluster_map' = {Rows[i] : i \in 1..Len(Rows)}]_vars

\* the command of the call is sent, and its reply is null
NullReply(cl) ==
    /\ Target(cl) # ""
    /\ \/ Key("m_cluster_map", findNodeEntryUnguarded(m_cluster_map, cl.slot).range)
             \in m_connection_map
       \/ slotsReply[Target(cl)] # "refused"
    /\ Reply(cl).type = "null"

\* C18: a null reply to the command of any operation raises
\* ConnectionLostException after 1 to 3 calls of redisReconnect, whatever
\* their results; a null reply to CLUSTER SLOTS is not read either: no startup
\* and no rebuild ends in a crash.
C18_NullReplyIsConnectionLost ==
    [][/\ \A op \in RouterOps :
             Invoked(op) /\ NullReply(rcall') =>
                /\ rcall'.last = "ConnectionLostException"
                /\ rcall'.reconnects \in 1..connectionRetryCount
       /\ (\/ rpc = "none" /\ RedisCluster
           \/ rpc = "wait" /\ rebuildRangeMappingUniqueLocked)
             => rres'.kind # "crash"]_vars

\* the command of the call is sent, and its reply is a protocol failure: a
\* reply of an unexpected type, an EXEC reply of the wrong length (remove has
\* no EXEC), or an error that is neither MOVED nor CLUSTERDOWN
ProtocolReply(cl) ==
    /\ Target(cl) # ""
    /\ \/ Reply(cl).type = "badtype"
       \/ Reply(cl).type = "badexec" /\ cl.op # "remove"
       \/ /\ Reply(cl).type = "error"
          /\ SubSeq(Reply(cl).str, 1, 6) # "MOVED "
          /\ SubSeq(Reply(cl).str, 1, 11) # "CLUSTERDOWN"

\* C19: an invocation whose reply is a protocol failure ends the router call
\* with IOException: no wait, no rebuild and no retry follow it.
C19_ProtocolFailureSurfaces ==
    [][\A op \in RouterOps :
          Invoked(op) /\ ProtocolReply(rcall') =>
             rpc' = "done" /\ rres' = Throw("IOException")]_vars

\* no node of the slot map answers CLUSTER SLOTS with its rows
EveryNodeFails == \A r \in m_cluster_map : slotsReply[r.node] # "rows"

\* C20: a rebuild in which every node of the previous slot map fails ends the
\* router call with the fatal error (XMLToolingException) raised to the
\* caller: it is not swallowed and not retried.
C20_RebuildFailureIsFatal ==
    [][rpc = "wait" /\ EveryNodeFails /\ rebuildRangeMappingUniqueLocked =>
          rpc' = "done" /\ rres' = Throw("XMLToolingException")]_vars

\* C21: for every id the server computes the same slot for the data key and
\* for the version key.
C21_Collocation == out.fn = "hashSlot" => out.data = out.version

\* C22: for every id, braces in its strings included, the slot the client
\* computes is the slot the server computes for the data key.
C22_ClientSlotIsServerSlot == out.fn = "hashSlot" => out.client = out.data

\* C23: in a slot map of non-overlapping ranges at most one range contains
\* the slot of an id; the lookup returns that range's entry, and no entry
\* exactly when no range contains the slot.
C23_FindIsContaining ==
    out.fn = "findNodeEntry" =>
        /\ Cardinality(Containing(arg.map, arg.slot)) <= 1
        /\ out.entry = NULL <=> Containing(arg.map, arg.slot) = {}
        /\ out.entry # NULL => out.entry \in Containing(arg.map, arg.slot)

\* a lookup that finds the last of three ranges
C23_Witness ==
    /\ out.fn = "findNodeEntry"
    /\ Cardinality(arg.map) = 3
    /\ out.entry # NULL
    /\ \A r \in arg.map : r.range.from <= out.entry.range.from

\* a lookup of a slot that lies in the gap between two ranges
C23_WitnessAbsent ==
    /\ out.fn = "findNodeEntry"
    /\ out.entry = NULL
    /\ \E r, q \in arg.map : r.range.to < arg.slot /\ arg.slot < q.range.from

\* C26: between rebuilds every key of the connection cache is the address of
\* an entry of the live slot map; a rebuild leaves no connection keyed by an
\* entry of the previous map it discarded.
C26_CacheKeysAreLive ==
    \A k \in m_connection_map :
        /\ k.map = "m_cluster_map"
        /\ \E r \in m_cluster_map : r.range = k.range

\* the threads that are rebuilding the slot map, and the ones that are
\* dispatching or using a cached connection
Rebuilding == {t \in Threads : tpc[t] \in {"rebuild", "slots"}}
Dispatching == {t \in Threads : tpc[t] \in {"find", "insert", "fn", "reply"}}

\* C24: the connection cache changes only while a thread holds the router's
\* lock in write mode, and two threads that dispatch in read mode are never
\* both about to insert.
C24_CacheWrittenUnderWriteLock ==
    [][/\ m_connection_map' # m_connection_map => m_shared_mutex.writer \in Threads
       /\ Cardinality({t \in Threads : tpc'[t] = "insert"}) <= 1]_vars

\* C25: at most one thread rebuilds at a time, no thread dispatches or scans
\* during a rebuild, and the connection a thread uses is in the cache: no
\* rebuild destroyed it.
C25_RebuildExcludesDispatch ==
    /\ Cardinality(Rebuilding) <= 1
    /\ Rebuilding # {} => Dispatching = {}
    /\ \A t \in Threads : tpc[t] \in {"fn", "reply"} => tcall[t].conn \in m_connection_map

\* a thread rebuilds while the other waits to rebuild
C25_Witness ==
    \E t, u \in Threads : tpc[t] = "slots" /\ tpc[u] = "wait"

\* the threads between the first command and the last reply of an operation
\* of a connection
Talking(k) == {t \in Threads : tpc[t] \in {"reply", "slots"} /\ tcall[t].conn = k}

\* C27: a thread between the first command and the last reply of an
\* operation of a connection holds the connection's mutex, so no two threads
\* are there on one connection.
C27_TalkingHoldsMutex ==
    \A k \in ConnKeys :
        /\ \A t \in Talking(k) : m_mutex[k] = t
        /\ Cardinality(Talking(k)) <= 1

\* C28: the classifier raises RedirectedException exactly for the texts that
\* begin with "MOVED ", ConnectionLostException exactly for the texts that
\* begin with "CLUSTERDOWN", and IOException for every other text.
C28_ClassifiedByPrefix ==
    out.fn = "handleCommandError" =>
        /\ out.thrown = "RedirectedException" <=> Begins(arg.err_str, "MOVED ")
        /\ out.thrown = "ConnectionLostException" <=> Begins(arg.err_str, "CLUSTERDOWN")
        /\ out.thrown \in {"RedirectedException", "ConnectionLostException", "IOException"}

\* min(baseWait * 2^r, maxWait) milliseconds in microseconds, no cap when
\* maxWait is 0, computed without a limit on the size of the numbers
Exact(config, r) ==
    LET toWait == Times(config.baseWait, 2 ^ r)
    IN  Times(IF config.maxWait = Word(0, 0) THEN toWait
              ELSE Smaller(toWait, config.maxWait), 1000)

\* C29: the wait of every retry r is min(baseWait * 2^r, maxWait)
\* milliseconds, uncapped when maxWait is 0, with no wrap-around of the 32-bit
\* arithmetic, and the waits of successive retries never decrease.
C29_BackOffNeverWraps ==
    out.fn = "tryWaitWithRetryNumber" =>
        \A i \in 1..Len(out.waits) :
            /\ out.waits[i] = Exact(arg, i - 1)
            /\ i > 1 => ~Less(out.waits[i], out.waits[i - 1])

\* C30: when exactly one of the two SET NX of set creates its key, set
\* returns false and the key it created is removed, at once or by the UNLINK
\* that follows the transaction.
C30_StrayKeyRemoved ==
    [][\A c \in Conns, id \in Ids, value \in Values, expiration \in Exps :
          /\ set(c, id, value, expiration) /\ ~dirty[c] =>
                LET t == SetTx(store, id, value, expiration)
                    data == t.replies[1].type = "status"
                    version == t.replies[2].type = "status"
                IN  data # version =>
                       \/ pc'[c] = "set_unlink"
                       \/ /\ res'[c] = RetBool(FALSE)
                          /\ data => ~Has(store', DataKey(id))
                          /\ version => ~Has(store', VersionKey(id))
          /\ setUnlink(c) =>
                /\ res'[c] = RetBool(FALSE)
                /\ ~Has(store', DataKey(call[c].id))]_vars

\* the number of scans of node n in a sequence of scanned nodes
Scans(scanned, n) == Cardinality({i \in 1..Len(scanned) : scanned[i] = n})

\* C31: a scanContext of the router that returns has scanned every node of
\* the slot map exactly once, also a node that owns several ranges.
C31_OneScanPerNode ==
    [][scanContextTypeless /\ rres'.kind = "ret" =>
          \A e \in m_cluster_map : Scans(rcall'.scanned, e.node) = 1]_vars

\* C32: a router call whose lookup finds no entry for the slot of the id
\* ends with an error: the null node is not dereferenced and the connection
\* cache gets no entry.
C32_AbsentNodeIsAnError ==
    [][\A op \in RouterOps :
          Invoked(op) /\ Target(rcall') = "" =>
             /\ rres'.kind = "throw"
             /\ m_connection_map' = m_connection_map]_vars

(***************************************************************************)
(* The reply queue of one connection during one operation: the commands an  *)
(* operation appends, stage by stage, and the replies it takes back with    *)
(* getNextFromConnection.  One pass of the retry loops is followed: a pass   *)
(* that ends in the retry has consumed all of its replies.                   *)
(***************************************************************************)
PipeOps == {"set", "getVersioned", "forceGet", "updateVersioned", "forceUpdate"}
\* the replies that end an operation early: an error reply, a reply of
\* another type than the one asked for, a failed read of the connection
Failures == {"error", "badtype", "lost"}
MaxReplies == 8

Opt(b, cmds) == IF b THEN cmds ELSE <<>>
Transaction(cmds) == <<"MULTI">> \o cmds \o <<"EXEC">>

\* the commands an operation appends before each run of reads; `below' is
\* the stored version being below minVersion (getVersioned) or differing
\* from ifVersion (updateVersioned)
Stages(a) ==
    CASE a.op = "set" ->
            << Transaction(<<"SET data", "SET version">>) >>
      [] a.op = "getVersioned" ->
            IF ~a.wantV /\ ~a.wantE THEN << <<"GET version">> >>
            ELSE IF ~(a.wantV /\ ~a.below) /\ ~a.wantE
            THEN << <<"WATCH">>, <<"GET version">>, <<"UNWATCH">> >>
            ELSE << <<"WATCH">>, <<"GET version">>,
                    Transaction(Opt(a.wantV /\ ~a.below, <<"GET data">>)
                                \o Opt(a.wantE, <<"EXPIRETIME">>)) >>
      [] a.op = "forceGet" ->
            << Transaction(<<"GET version">> \o Opt(a.wantV, <<"GET data">>)
                           \o Opt(a.wantE, <<"EXPIRETIME">>)) >>
      [] a.op = "updateVersioned" ->
            IF a.below THEN << <<"WATCH">>, <<"GET version">> >>
            ELSE << <<"WATCH">>, <<"GET version">>,
                    Transaction(<<"SET data", "INCR version">>
                                \o Opt(a.exp # 0, <<"EXPIREAT data", "EXPIREAT version">>)) >>
      [] OTHER ->
            << Transaction(<<"SET data", "INCR version">>
                           \o Opt(a.exp # 0, <<"EXPIREAT data", "EXPIREAT version">>)) >>

\* the n-th reply the server gives to the operation
ReplyAt(a, n) == IF n = a.at THEN a.kind ELSE "ok"

\* RedisReply::getNextFromConnection on one reply: what it throws
getNextFromConnection(kind) ==
    CASE kind = "lost" -> "ConnectionLostException"
      [] kind = "error" -> "handleCommandError"
      [] kind = "badtype" -> "IOException"
      [] OTHER -> ""

\* the reads of an operation from read i of stage s on, n the number of the
\* reply: a throw leaves the rest of the stage on the connection, but a
\* failed read has the context recreated by handleCriticalError
RECURSIVE readReplies(_, _, _, _)
readReplies(a, s, i, n) ==
    IF s > Len(Stages(a)) THEN [fn |-> "pipeline", unread |-> 0, thrown |-> ""]
    ELSE IF i > Len(Stages(a)[s]) THEN readReplies(a, s + 1, 1, n)
    ELSE IF getNextFromConnection(ReplyAt(a, n)) = "" THEN readReplies(a, s, i + 1, n + 1)
    ELSE [fn |-> "pipeline",
          unread |-> IF ReplyAt(a, n) = "lost" THEN 0 ELSE Len(Stages(a)[s]) - i,
          thrown |-> getNextFromConnection(ReplyAt(a, n))]

pipeline ==
    /\ arg.fn = "pipeline"
    /\ out = NoOut
    /\ out' = readReplies(arg, 1, 1, 1)
    /\ UNCHANGED <<svars, cvars, arg, tvars>>

InitPipe ==
    /\ StartSystem({})
    /\ arg \in {[fn |-> "pipeline", op |-> o, wantV |-> v, wantE |-> e, below |-> b,
                 exp |-> x, at |-> n, kind |-> k] :
                    o \in PipeOps, v \in BOOLEAN, e \in BOOLEAN, b \in BOOLEAN,
                    x \in {0, 5}, n \in 0..MaxReplies, k \in Failures}
    /\ out = NoOut

NextPipe == pipeline

SpecPipe == InitPipe /\ [][NextPipe]_vars

\* C33: when an operation of a connection returns or raises, no reply to a
\* command it appended is left unread on the connection.
C33_NoUnreadReply ==
    arg.fn = "pipeline" /\ out # NoOut => out.unread = 0

\* C34: once getVersioned or updateVersioned has returned or raised, its
\* connection watches no key, so that no later transaction of the connection
\* is aborted on account of it.
C34_NoWatchLeft ==
    \A c \in Conns :
       Done(c, "getVersioned") \/ Done(c, "updateVersioned") =>
          watched[c] = {} /\ ~dirty[c]

(***************************************************************************)
(* The router under an application that keeps calling it: a call that can   *)
(* begin does begin, and a call under way runs on to its end.               *)
(***************************************************************************)
NextRecover ==
    \/ Environment
    \/ RedisCluster
    \/ \E slot \in Slots : wrappedCall("set", slot)
    \/ rebuildRangeMappingUniqueLocked
    \/ wrappedCallRecurse

SpecRecover ==
    /\ InitCluster
    /\ [][NextRecover]_vars
    /\ WF_vars(\E slot \in Slots : wrappedCall("set", slot))
    /\ WF_vars(rebuildRangeMappingUniqueLocked)
    /\ WF_vars(wrappedCallRecurse)

\* every node reports the slots and serves the commands
Healthy == slotsReply = [n \in Nodes |-> "rows"] /\ opReply = "serve"
\* a rebuild has ended with "Cannot connect to any nodes in the redis cluster"
FatalRebuild == rpc = "done" /\ rcall.rebuilds > 0 /\ rres = Throw("XMLToolingException")

\* C35: when the nodes answer again, for good, after a rebuild that failed
\* because no known node answered, a later router call completes
\* successfully.
C35_RecoversAfterFatal ==
    <>[]Healthy => (FatalRebuild ~> rres.kind = "ret")

\* C36: a forceUpdate, or the transaction of an updateVersioned, on an id
\* whose data key is absent leaves the store as it was, whether the call
\* returns or raises.
C36_AbsentDataKeyUntouched ==
    [][/\ \A c \in Conns, id \in Ids, value \in Values, expiration \in Exps :
             forceUpdate(c, id, value, expiration) /\ ~Has(store, DataKey(id)) =>
                store' = store
       /\ \A c \in Conns :
             uvExec(c) /\ ~Has(store, DataKey(call[c].id)) => store' = store]_vars

\* the elements of the EXEC reply that forceGet reads, counted from 1: the
\* test for nil reads the first, and the second unless the first is nil;
\* the outputs are read when neither is nil
ElementsRead(replies, wantV, wantE) ==
    IF replies[1].type = "nil" THEN {1}
    ELSE IF Len(replies) < 2 THEN {1, 2}
    ELSE IF replies[2].type = "nil" THEN {1, 2}
    ELSE {1, 2} \cup (IF wantE THEN {IF wantV THEN 3 ELSE 2} ELSE {})

\* C37: a forceGet whose transaction ran reads no element of the EXEC reply
\* beyond the elements the reply has, whichever outputs are asked for.
C37_ReadsWithinReply ==
    [][\A c \in Conns, id \in Ids, wantV \in BOOLEAN, wantE \in BOOLEAN :
          forceGet(c, id, wantV, wantE) /\ ~dirty[c] =>
             ElementsRead(ForceGetTx(store, id, wantV, wantE).replies, wantV, wantE)
                \subseteq 1..Len(ForceGetTx(store, id, wantV, wantE).replies)]_vars

\* C38: the version and the value that a getVersioned returns are those of
\* one state of the store, the one its transaction ran in, whatever the other
\* connections wrote during the call.
C38_ConsistentSnapshot ==
    [][\A c \in Conns :
          gvExec(c) /\ res'[c].kind = "ret" /\ res'[c].gotV =>
             /\ Exists(store, call[c].id)
             /\ res'[c].val = StoredVersion(store, call[c].id)
             /\ res'[c].outV = store[DataKey(call[c].id)].val]_vars

\* C38 happens: a getVersioned has returned a version and a value after
\* another connection wrote the id during the call.
C38_Witness ==
    \E c \in Conns :
       /\ Done(c, "getVersioned") /\ call[c].intf
       /\ res[c].kind = "ret" /\ res[c].gotV /\ res[c].val >= 1

(***************************************************************************)
(* The threads under a fair scheduler: a thread that can take a step takes  *)
(* it, server round trips return, and a lock that is free again and again   *)
(* is granted to a thread that waits for it.  The operations go to one      *)
(* slot, so that the threads meet on its connection; scanContext goes over  *)
(* every entry.                                                             *)
(***************************************************************************)
NextThreadsFair ==
    \/ RedisCluster
    \/ \E t \in Threads, op \in ThreadOps : threadCall(t, op, 7000)
    \/ \E t \in Threads : threadCallRecurse(t)
    \/ \E t \in Threads : dispatchFind(t)
    \/ \E t \in Threads : dispatchInsert(t)
    \/ \E t \in Threads : threadLock(t)
    \/ \E t \in Threads : threadReply(t)
    \/ \E t \in Threads : UniqueLock(t)
    \/ \E t \in Threads : threadRebuild(t)
    \/ \E t \in Threads : threadSlots(t)

SpecThreadsFair ==
    /\ InitThreads
    /\ [][NextThreadsFair]_vars
    /\ \A t \in Threads :
          /\ WF_vars(dispatchFind(t))
          /\ WF_vars(dispatchInsert(t))
          /\ WF_vars(threadReply(t))
          /\ WF_vars(threadRebuild(t))
          /\ WF_vars(threadSlots(t))
          /\ SF_vars(threadCallRecurse(t))
          /\ SF_vars(threadLock(t))
          /\ SF_vars(UniqueLock(t))

\* the locks a thread holds
Holds(t) ==
    [router |-> IF m_shared_mutex.writer = t THEN "write"
                ELSE IF t \in m_shared_mutex.readers THEN "read" ELSE "none",
     conns |-> {k \in ConnKeys : m_mutex[k] = t}]

\* a thread asks for the router's lock while it holds no lock at all, and
\* for the mutex of a connection while it holds the router's lock in read
\* mode and no other mutex
LockOrder ==
    \A t \in Threads :
       /\ tpc[t] \in {"wait", "call"} => Holds(t) = [router |-> "none", conns |-> {}]
       /\ tpc[t] = "fn" => Holds(t) = [router |-> "read", conns |-> {}]

C40_ExpirationsCoupled ==
    \A id \in Ids :
       Exists(store, id) => store[DataKey(id)].exp = store[VersionKey(id)].exp

====
